---- MODULE Spec2Model ----
(***************************************************************************)
(* Sow performance scoring and predictive ranking engine.                  *)
(*                                                                         *)
(* The model follows app/scoring/engine.py (run_scoring),                  *)
(* app/scoring/ml_features.py (build_feature_matrix, _build_label),        *)
(* app/scoring/ml_engine.py (MLEngine) and app/etl/pipeline.py (run_etl)   *)
(* over the tables of app/db/schema.py.                                    *)
(*                                                                         *)
(* Numbers.  SQLite INTEGER columns are integers.  Python floats are       *)
(* modelled as fixed-point integers with SCALE units per 1.0; a division   *)
(* rounds to the nearest unit (RDiv) and math.sqrt is the integer square   *)
(* root of the scaled square (ISqrt).  A nullable value is a sequence:     *)
(* <<>> is None/NULL/NaN and <<v>> is the value v.                         *)
(***************************************************************************)
EXTENDS Integers, Sequences, FiniteSets, TLC

\* -------------------------------------------------------------------- state
VARIABLES
  sows, farrowing_records, piglets,   \* the tables run_etl loads
  parity_scores, sow_scores,          \* the committed score tables
  last_run,                           \* the outcome of the last run_scoring
  label_in, label_out,                \* a frame given to _build_label, its result
  model, version, feature_matrix,     \* the fields of the MLEngine
  ml_predictions,                     \* the committed ml_predictions table
  model_file,                         \* the booster saved at MODEL_PATH
  now,                                \* the wall clock
  ml_call,                            \* the outcome of the last MLEngine call
  fold_groups, folds,                 \* a groups array given to GroupKFold, its folds
  app,                                \* the application: "off" or "on"
  etl_pc, train_pc,                   \* the next step of ETLWorker, of _TrainWorker
  train_btn,                          \* train_btn.isEnabled()
  zip_dir,                            \* the zip files lying in ZIP_DIR
  farm_files, farm_links,             \* the files on disk, the symlinks in FARM_DIR
  zip_state,                          \* the content of .zip_extract_state.json
  zip_log,                            \* the lines the last start-up run logged
  zip_writes                          \* the paths the last run created a file at

dbVars == <<sows, farrowing_records, piglets>>
scoreVars == <<parity_scores, sow_scores>>
labelVars == <<label_in, label_out>>
foldVars == <<fold_groups, folds>>
appVars == <<app, etl_pc, train_pc, train_btn>>
zipVars == <<zip_dir, farm_files, farm_links, zip_state, zip_log, zip_writes>>
engineVars == <<model, version, feature_matrix>>
mlVars == <<model, version, feature_matrix, ml_predictions, model_file, now,
            ml_call>>
vars == <<sows, farrowing_records, piglets, parity_scores, sow_scores, last_run,
          label_in, label_out, model, version, feature_matrix, ml_predictions,
          model_file, now, ml_call, fold_groups, folds, app, etl_pc, train_pc,
          train_btn, zip_dir, farm_files, farm_links, zip_state, zip_log,
          zip_writes>>

\* Fixed-point units per 1.0 for modelled floats.
SCALE == 1000

\* ---------------------------------------------------------------- constants
ALPHA == 3

\* ParityScore weights, in hundredths.
W_LIVE_BORN == 45
W_TOTAL_BORN == 27
W_STILLBORN == 18
W_OWN_RATE == 10

\* TotalScore axis weights, in hundredths.
W_PEAK == 35
W_STABILITY == 25
W_SUSTAIN == 25
W_OFFSPRING == 15

\* Offspring quality sub-weights, in hundredths.
W_W_RATE == 60
W_PS_RATE == 40

\* ------------------------------------------------------------------ numbers
None == <<>>
Some(v) == <<v>>
IsNone(x) == x = <<>>
Val(x) == x[1]

\* a / b (b > 0) rounded to the nearest integer, symmetric about 0.
RDiv(a, b) ==
  IF a >= 0 THEN (2 * a + b) \div (2 * b)
            ELSE -((2 * (-a) + b) \div (2 * b))

RECURSIVE SqrtSearch(_, _, _)
SqrtSearch(x, lo, hi) ==
  IF lo >= hi THEN lo
  ELSE LET mid == (lo + hi + 1) \div 2
       IN  IF mid * mid <= x THEN SqrtSearch(x, mid, hi)
                             ELSE SqrtSearch(x, lo, mid - 1)

\* math.sqrt on a value carrying SCALE*SCALE units: the result carries SCALE.
ISqrt(x) == SqrtSearch(x, 0, 40000)

RECURSIVE SumSeq(_)
SumSeq(s) == IF s = <<>> THEN 0 ELSE s[1] + SumSeq(Tail(s))

\* ------------------------------------------------------------------- tables
\* individual_id values in the byte order SQLite's ORDER BY gives them.
IdOrder == <<"TB1", "TB2", "TB3", "TB4", "TB5", "TB6", "TB7">>
SowIds == {IdOrder[i] : i \in 1..Len(IdOrder)}
IdIdx(id) == CHOOSE i \in 1..Len(IdOrder) : IdOrder[i] = id

\* ORDER BY individual_id, parity
RowBefore(a, b) ==
  \/ IdIdx(a.individual_id) < IdIdx(b.individual_id)
  \/ a.individual_id = b.individual_id /\ a.parity < b.parity

RECURSIVE OrderRows(_)
OrderRows(S) ==
  IF S = {} THEN <<>>
  ELSE LET m == CHOOSE x \in S : \A y \in S \ {x} : RowBefore(x, y)
       IN  <<m>> \o OrderRows(S \ {m})

\* list.sort(key=..., reverse=True): descending, equal keys keep their order.
RECURSIVE InsertDesc(_, _, _)
InsertDesc(x, kx, s) ==
  IF s = <<>> THEN <<x>>
  ELSE IF s[1].key >= kx THEN <<s[1]>> \o InsertDesc(x, kx, Tail(s))
       ELSE <<x>> \o s

RECURSIVE SortDescKeyed(_)
SortDescKeyed(s) ==
  IF s = <<>> THEN <<>>
  ELSE LET init == SortDescKeyed(SubSeq(s, 1, Len(s) - 1))
           x == s[Len(s)]
       IN  InsertDesc(x, x.key, init)

\* The keys of s in the order of their first appearance (dict insertion order).
RECURSIVE FirstSeen(_, _)
FirstSeen(s, seen) ==
  IF s = <<>> THEN <<>>
  ELSE IF s[1] \in seen THEN FirstSeen(Tail(s), seen)
       ELSE <<s[1]>> \o FirstSeen(Tail(s), seen \cup {s[1]})

RECURSIVE Concat(_)
Concat(ss) == IF ss = <<>> THEN <<>> ELSE ss[1] \o Concat(Tail(ss))

Range(s) == {s[i] : i \in 1..Len(s)}
IndexOf(s, x) == CHOOSE i \in 1..Len(s) : s[i] = x

\* ------------------------------------------------------------ scoring engine
\* _mean_sd with a unit sd for a list too short to have one.
MeanSdUnitSd(values) ==
  IF Len(values) < 2 THEN <<0, SCALE>>
  ELSE LET m == RDiv(SumSeq(values), Len(values))
           var == RDiv(SumSeq([i \in 1..Len(values) |->
                                 (values[i] - m) * (values[i] - m)]),
                       Len(values))
       IN  <<m, ISqrt(var)>>

\* _mean_sd: population mean and standard deviation, <<mean, sd>>.
MeanSd(values) ==
  IF Len(values) < 2 THEN <<IF values # <<>> THEN values[1] ELSE 0, 0>>
  ELSE LET m == RDiv(SumSeq(values), Len(values))
           var == RDiv(SumSeq([i \in 1..Len(values) |->
                                 (values[i] - m) * (values[i] - m)]),
                       Len(values))
       IN  <<m, ISqrt(var)>>

\* _zscore without the change of sign.
ZScoreNeverInverted(value, mean, sd, invert) ==
  IF IsNone(value) \/ sd = 0 THEN 0
  ELSE RDiv((Val(value) - mean) * SCALE, sd)

\* _zscore
ZScore(value, mean, sd, invert) ==
  IF IsNone(value) \/ sd = 0 THEN 0
  ELSE LET z == RDiv((Val(value) - mean) * SCALE, sd)
       IN  IF invert THEN -z ELSE z

\* An INTEGER column read as a float.
Fix(x) == IF IsNone(x) THEN None ELSE Some(Val(x) * SCALE)

\* ParityRow with own_w, own_rate (run_scoring step 1).
ParityRow(r) ==
  LET f == IF IsNone(r.foster) THEN 0 ELSE Val(r.foster)
      own_w == IF IsNone(r.weaned) THEN None ELSE Some(Val(r.weaned) - f)
      own_rate == IF IsNone(r.weaned) \/ Val(r.weaned) <= 0 THEN None
                  ELSE Some(RDiv(Val(own_w) * SCALE, Val(r.weaned)))
  IN  [individual_id |-> r.individual_id, parity |-> r.parity,
       weaned |-> r.weaned, foster |-> r.foster,
       born_alive |-> r.born_alive, total_born |-> r.total_born,
       stillborn |-> r.stillborn,
       own_w |-> Fix(own_w), own_rate |-> own_rate]

\* parity_data with the append under "if pr.weaned": a litter with no weaned
\* piglet is dropped.
ParityDataWeanedOnly(fr) ==
  LET rows == OrderRows({r \in fr : ~IsNone(r.weaned) /\ Val(r.weaned) # 0})
  IN  [i \in 1..Len(rows) |-> ParityRow(rows[i])]

\* rows_raw -> parity_data, ORDER BY individual_id, parity.
ParityData(fr) ==
  LET rows == OrderRows(fr) IN [i \in 1..Len(rows) |-> ParityRow(rows[i])]

\* by_parity: the cohort keys in insertion order, and one cohort.
ParityKeys(pd) == FirstSeen([i \in 1..Len(pd) |-> pd[i].parity], {})
Cohort(pd, k) == SelectSeq(pd, LAMBDA p : p.parity = k)

\* sow_n seeded with the rows an earlier run left in parity_scores.
SowNCarried(pd, sid) ==
  Cardinality({i \in 1..Len(pd) : pd[i].individual_id = sid})
  + Cardinality({r \in parity_scores : r.individual_id = sid})

\* sow_n: the number of parity rows of one sow.
SowN(pd, sid) == Cardinality({i \in 1..Len(pd) : pd[i].individual_id = sid})

\* shrink with the count taken one too high.
ShrinkOffByOne(n) == <<n + 1, n + 1 + ALPHA>>

\* shrink = n / (n + ALPHA), as the fraction <<numerator, denominator>>.
Shrink(n) == <<n, n + ALPHA>>
TimesShrink(z, q) == RDiv(z * q[1], q[2])

\* vals_* of a cohort: the non-None values of one column, then _mean_sd;
\* (0, 0) for an empty list.
Present(column) ==
  LET vs == SelectSeq(column, LAMBDA v : ~IsNone(v))
  IN  [i \in 1..Len(vs) |-> Val(vs[i])]
CohortStat(column) ==
  LET vals == Present(column)
  IN  IF vals # <<>> THEN MeanSd(vals) ELSE <<0, 0>>

\* parity_score without the live-born term.
ParityScoreOfNoLiveBorn(z_lb, z_tb, z_sb, z_or) ==
  RDiv(W_TOTAL_BORN * z_tb + W_STILLBORN * z_sb + W_OWN_RATE * z_or, 100)

\* parity_score = 0.45 z_live_born + 0.27 z_total_born + 0.18 z_stillborn
\* + 0.10 z_own_rate
ParityScoreOf(z_lb, z_tb, z_sb, z_or) ==
  RDiv(W_LIVE_BORN * z_lb + W_TOTAL_BORN * z_tb
       + W_STILLBORN * z_sb + W_OWN_RATE * z_or, 100)

\* The five columns of a cohort that are standardised, as floats.
ColOwnW(group) == [i \in 1..Len(group) |-> group[i].own_w]
ColLiveBorn(group) == [i \in 1..Len(group) |-> Fix(group[i].born_alive)]
ColTotalBorn(group) == [i \in 1..Len(group) |-> Fix(group[i].total_born)]
ColStillborn(group) == [i \in 1..Len(group) |-> Fix(group[i].stillborn)]
ColOwnRate(group) == [i \in 1..Len(group) |-> group[i].own_rate]

\* The mean and sd of the five columns of one cohort.
CohortStats(group) ==
  [ow |-> CohortStat(ColOwnW(group)), lb |-> CohortStat(ColLiveBorn(group)),
   tb |-> CohortStat(ColTotalBorn(group)), sb |-> CohortStat(ColStillborn(group)),
   orr |-> CohortStat(ColOwnRate(group))]

\* One entry of parity_results (run_scoring step 2, the inner loop): n is the
\* sow's sow_n and st the statistics of the row's cohort.
ParityResult(pr, n, st) ==
  LET shrink == Shrink(n)
      z_ow == TimesShrink(ZScore(pr.own_w, st.ow[1], st.ow[2], FALSE), shrink)
      z_lb == TimesShrink(ZScore(Fix(pr.born_alive), st.lb[1], st.lb[2], FALSE),
                          shrink)
      z_tb == TimesShrink(ZScore(Fix(pr.total_born), st.tb[1], st.tb[2], FALSE),
                          shrink)
      z_sb == TimesShrink(ZScore(Fix(pr.stillborn), st.sb[1], st.sb[2], TRUE),
                          shrink)
      z_or == TimesShrink(ZScore(pr.own_rate, st.orr[1], st.orr[2], FALSE),
                          shrink)
  IN  [individual_id |-> pr.individual_id, parity |-> pr.parity,
       own_weaned |-> pr.own_w, own_rate |-> pr.own_rate,
       z_own_weaned |-> z_ow, z_live_born |-> z_lb, z_total_born |-> z_tb,
       z_stillborn |-> z_sb, z_own_rate |-> z_or,
       parity_score |-> ParityScoreOf(z_lb, z_tb, z_sb, z_or)]

\* The parity_results entries of cohort k, in parity_data order.
CohortResults(pd, k) ==
  LET group == Cohort(pd, k)
      st == CohortStats(group)
  IN  [i \in 1..Len(group) |->
        ParityResult(group[i], SowN(pd, group[i].individual_id), st)]

\* parity_results before ranking: cohort by cohort in by_parity order.
ParityResults(pd) ==
  LET keys == ParityKeys(pd)
  IN  Concat([j \in 1..Len(keys) |-> CohortResults(pd, keys[j])])

\* The sort without reverse=True: ascending.
SortedAscending(rows, col) ==
  LET keyed == [i \in 1..Len(rows) |-> [key |-> -rows[i][col], row |-> rows[i]]]
      sorted == SortDescKeyed(keyed)
  IN  [i \in 1..Len(sorted) |-> sorted[i].row]

\* group_results.sort(key=parity_score, reverse=True) of one cohort.
SortedByScore(rows, col) ==
  LET keyed == [i \in 1..Len(rows) |-> [key |-> rows[i][col], row |-> rows[i]]]
      sorted == SortDescKeyed(keyed)
  IN  [i \in 1..Len(sorted) |-> sorted[i].row]

\* rank_active copied from rank_all for the active rows.
RankedActiveAsAll(sorted, active_sows) ==
  [i \in 1..Len(sorted) |->
    [row |-> sorted[i],
     rank_all |-> i,
     rank_active |-> IF sorted[i].individual_id \in active_sows
                     THEN Some(i) ELSE None]]

\* enumerate(sorted, 1) gives rank_all; enumerate(active rows, 1) gives
\* rank_active; a row of a sow outside active_sows gets rank_active None.
Ranked(sorted, active_sows) ==
  LET active_group == SelectSeq(sorted, LAMBDA r : r.individual_id \in active_sows)
      active_ids == {active_group[i].individual_id : i \in 1..Len(active_group)}
  IN  [i \in 1..Len(sorted) |->
        [row |-> sorted[i],
         rank_all |-> i,
         rank_active |-> IF sorted[i].individual_id \in active_ids
                         THEN Some(IndexOf(active_group, sorted[i]))
                         ELSE None]]

\* Step 3 for cohort k: the rows of the cohort with their ranks.
RankedCohort(results, k, active_sows) ==
  LET group_results == SelectSeq(results, LAMBDA x : x.parity = k)
      ranked == Ranked(SortedByScore(group_results, "parity_score"), active_sows)
  IN  [i \in 1..Len(ranked) |->
        LET r == ranked[i].row
        IN  [individual_id |-> r.individual_id, parity |-> r.parity,
             own_weaned |-> r.own_weaned, own_rate |-> r.own_rate,
             z_own_weaned |-> r.z_own_weaned, z_live_born |-> r.z_live_born,
             z_total_born |-> r.z_total_born, z_stillborn |-> r.z_stillborn,
             z_own_rate |-> r.z_own_rate, parity_score |-> r.parity_score,
             rank_all |-> ranked[i].rank_all,
             rank_active |-> ranked[i].rank_active]]

\* The rows inserted into parity_scores: every cohort of by_parity, ranked.
RankedParityRows(results, active_sows) ==
  UNION {Range(RankedCohort(results, k, active_sows)) :
           k \in {results[i].parity : i \in 1..Len(results)}}

\* sum(xs) / len(xs)
Mean(xs) == RDiv(SumSeq(xs), Len(xs))

\* sow_parity: the scored sows in the order parity_results first names them.
ScoredSows(results) ==
  FirstSeen([i \in 1..Len(results) |-> results[i].individual_id], {})

\* recs of one sow after recs.sort(key=parity).
SowRecs(results, sid) ==
  OrderRows({results[i] : i \in {j \in 1..Len(results) :
                                   results[j].individual_id = sid}})

\* Peak without the fall-back: 0 for a sow without parity 2 and 3.
PeakOfParity23Only(recs) ==
  LET peak_recs == SelectSeq(recs, LAMBDA r : r.parity \in {2, 3})
      peak_scores == [i \in 1..Len(peak_recs) |-> peak_recs[i].parity_score]
  IN  IF peak_scores # <<>> THEN Mean(peak_scores) ELSE 0

\* Peak as the mean score of all parities.
PeakOfAllParities(recs) ==
  LET scores == [i \in 1..Len(recs) |-> recs[i].parity_score]
  IN  IF scores # <<>> THEN Mean(scores) ELSE 0

\* Peak: the mean score of parities 2 and 3, else of all parities.
Peak(recs) ==
  LET scores == [i \in 1..Len(recs) |-> recs[i].parity_score]
      peak_recs == SelectSeq(recs, LAMBDA r : r.parity \in {2, 3})
      peak_scores == [i \in 1..Len(peak_recs) |-> peak_recs[i].parity_score]
  IN  IF peak_scores # <<>> THEN Mean(peak_scores)
      ELSE IF scores # <<>> THEN Mean(scores) ELSE 0

\* Stability: minus the population variance of the scores.
Stability(scores) ==
  IF Len(scores) >= 2
  THEN LET m == Mean(scores)
           var == RDiv(SumSeq([i \in 1..Len(scores) |->
                                 (scores[i] - m) * (scores[i] - m)]),
                       Len(scores) * SCALE)
       IN  -var
  ELSE 0

\* Sustain with the middle score of an odd number in the first half.
SustainMiddleFirst(scores) ==
  IF Len(scores) >= 2
  THEN LET mid == (Len(scores) + 1) \div 2
           first_half == SubSeq(scores, 1, mid)
           second_half == SubSeq(scores, mid + 1, Len(scores))
       IN  Mean(second_half) - Mean(first_half)
  ELSE 0

\* Sustain: mean of the second half minus mean of the first half.
Sustain(scores) ==
  IF Len(scores) >= 2
  THEN LET mid == Len(scores) \div 2
           first_half == SubSeq(scores, 1, mid)
           second_half == SubSeq(scores, mid + 1, Len(scores))
       IN  Mean(second_half) - Mean(first_half)
  ELSE 0

\* Step 4: one sow_scores entry before offspring quality and ranking.
SowAxes(results, sid) ==
  LET recs == SowRecs(results, sid)
      scores == [i \in 1..Len(recs) |-> recs[i].parity_score]
  IN  [individual_id |-> sid, peak |-> Peak(recs),
       stability |-> Stability(scores), sustain |-> Sustain(scores)]

\* Step 5: piglet_rows = the piglets with a dam, in table order.
PigletRows(pg) == SelectSeq(pg, LAMBDA p : p.dam_id # "")

\* dam_w_total, dam_w_promoted, dam_l_total, dam_ps_sold of one dam.
DamWTotal(rows, dam) ==
  Cardinality({i \in 1..Len(rows) :
                 rows[i].dam_id = dam /\ rows[i].rank = "W"})
DamWPromoted(rows, dam) ==
  Cardinality({i \in 1..Len(rows) :
                 /\ rows[i].dam_id = dam /\ rows[i].rank = "W"
                 /\ rows[i].ps_shipment = "W"})
DamLTotal(rows, dam) ==
  Cardinality({i \in 1..Len(rows) :
                 rows[i].dam_id = dam /\ rows[i].rank \in {"A", "B", "C"}})
DamPsSold(rows, dam) ==
  Cardinality({i \in 1..Len(rows) :
                 /\ rows[i].dam_id = dam /\ rows[i].rank \in {"A", "B", "C"}
                 /\ rows[i].ps_shipment = "o"})

\* The dams of w_rates / ps_rates in dict insertion order, and their rates.
WRateDams(rows) ==
  LET w == SelectSeq(rows, LAMBDA p : p.rank = "W")
  IN  FirstSeen([i \in 1..Len(w) |-> w[i].dam_id], {})
PsRateDams(rows) ==
  LET l == SelectSeq(rows, LAMBDA p : p.rank \in {"A", "B", "C"})
  IN  FirstSeen([i \in 1..Len(l) |-> l[i].dam_id], {})
WRate(rows, dam) == RDiv(DamWPromoted(rows, dam) * SCALE, DamWTotal(rows, dam))
PsRate(rows, dam) == RDiv(DamPsSold(rows, dam) * SCALE, DamLTotal(rows, dam))

\* m_wr, s_wr and m_pr, s_pr over the dams with a rate.
OffspringStats(rows) ==
  LET wd == WRateDams(rows)
      pd == PsRateDams(rows)
  IN  [wr |-> IF wd # <<>>
              THEN MeanSd([i \in 1..Len(wd) |-> WRate(rows, wd[i])])
              ELSE <<0, 0>>,
       pr |-> IF pd # <<>>
              THEN MeanSd([i \in 1..Len(pd) |-> PsRate(rows, pd[i])])
              ELSE <<0, 0>>]

\* offspring_quality with a dam without W-rank piglets taken as a dam whose
\* W rate is 0.
OffspringQualityZeroWRate(rows, st, sid) ==
  LET z_wr == IF sid \in Range(WRateDams(rows))
              THEN ZScore(Some(WRate(rows, sid)), st.wr[1], st.wr[2], FALSE)
              ELSE ZScore(Some(0), st.wr[1], st.wr[2], FALSE)
      z_pr == IF sid \in Range(PsRateDams(rows))
              THEN ZScore(Some(PsRate(rows, sid)), st.pr[1], st.pr[2], FALSE)
              ELSE 0
  IN  RDiv(W_W_RATE * z_wr + W_PS_RATE * z_pr, 100)

\* offspring_quality of one sow.
OffspringQuality(rows, st, sid) ==
  LET z_wr == IF sid \in Range(WRateDams(rows))
              THEN ZScore(Some(WRate(rows, sid)), st.wr[1], st.wr[2], FALSE)
              ELSE 0
      z_pr == IF sid \in Range(PsRateDams(rows))
              THEN ZScore(Some(PsRate(rows, sid)), st.pr[1], st.pr[2], FALSE)
              ELSE 0
  IN  RDiv(W_W_RATE * z_wr + W_PS_RATE * z_pr, 100)

TotalScore(peak, stability, sustain, oq) ==
  RDiv(W_PEAK * peak + W_STABILITY * stability
       + W_SUSTAIN * sustain + W_OFFSPRING * oq, 100)

\* sow_scores before ranking (steps 4 and 5), in sow_parity order.
SowResults(results, pg) ==
  LET sids == ScoredSows(results)
      rows == PigletRows(pg)
      st == OffspringStats(rows)
  IN  [i \in 1..Len(sids) |->
        LET a == SowAxes(results, sids[i])
            oq == OffspringQuality(rows, st, sids[i])
        IN  [individual_id |-> a.individual_id, peak |-> a.peak,
             stability |-> a.stability, sustain |-> a.sustain,
             offspring_quality |-> oq,
             total_score |-> TotalScore(a.peak, a.stability, a.sustain, oq)]]

\* Step 6: sow_scores.sort(key=total_score or 0, reverse=True) and the ranks.
RankedSowResults(sresults, active_sows) ==
  LET ranked == Ranked(SortedByScore(sresults, "total_score"), active_sows)
  IN  [i \in 1..Len(ranked) |->
        LET r == ranked[i].row
        IN  [individual_id |-> r.individual_id, peak |-> r.peak,
             stability |-> r.stability, sustain |-> r.sustain,
             offspring_quality |-> r.offspring_quality,
             total_score |-> r.total_score,
             rank_all |-> ranked[i].rank_all,
             rank_active |-> ranked[i].rank_active]]

\* run_scoring's outcome on a snapshot: the rows of the two tables.
ActiveSows(sw) == {x.individual_id : x \in {y \in sw : y.status = "active"}}
ScoredParityRows(fr, sw) ==
  RankedParityRows(ParityResults(ParityData(fr)), ActiveSows(sw))
ScoredSowRows(fr, sw, pg) ==
  Range(RankedSowResults(SowResults(ParityResults(ParityData(fr)), pg),
                         ActiveSows(sw)))

\* ---------------------------------------------------------------------- ETL
\* sow_id = "TB" + p["piglet_no"]
PromotedId(piglet_no) == "TB" \o piglet_no

NewSow(id, dam) == [individual_id |-> id, dam_id |-> dam, status |-> "active"]
HasSow(sw, id) == \E x \in sw : x.individual_id = id

\* _insert_sows_from_piglets: INSERT OR IGNORE, piglet by piglet.  A promoted
\* piglet whose dam is not yet in sows violates the foreign key: ok = FALSE.
RECURSIVE InsertSowsFromPiglets(_, _)
InsertSowsFromPiglets(sw, pl) ==
  IF pl = <<>> THEN [ok |-> TRUE, sows |-> sw]
  ELSE LET p == pl[1]
           promoted == p.ps_shipment = "W"
           sid == PromotedId(p.piglet_no)
           fk_bad == promoted /\ ~HasSow(sw, sid) /\ p.dam_id # ""
                     /\ ~HasSow(sw, p.dam_id)
           s1 == IF promoted /\ ~HasSow(sw, sid)
                 THEN sw \cup {NewSow(sid, p.dam_id)} ELSE sw
           s2 == IF p.dam_id # "" /\ ~HasSow(s1, p.dam_id)
                 THEN s1 \cup {NewSow(p.dam_id, "")} ELSE s1
       IN  IF fk_bad THEN [ok |-> FALSE, sows |-> sw]
           ELSE InsertSowsFromPiglets(s2, Tail(pl))

\* _update_sow_status: deaths first, culls after.
UpdateSowStatus(sw, deaths, culls) ==
  {[x EXCEPT !.status = IF x.individual_id \in culls THEN "culled"
                        ELSE IF x.individual_id \in deaths THEN "dead"
                        ELSE @] : x \in sw}

\* _enrich_sow_parents: dam_id of a promoted sow, where it is still NULL.
RECURSIVE EnrichSowParents(_, _)
EnrichSowParents(sw, pl) ==
  IF pl = <<>> THEN sw
  ELSE LET p == pl[1]
           sid == PromotedId(p.piglet_no)
           s1 == IF p.ps_shipment = "W"
                 THEN {IF x.individual_id = sid /\ x.dam_id = ""
                       THEN [x EXCEPT !.dam_id = p.dam_id] ELSE x : x \in sw}
                 ELSE sw
       IN  EnrichSowParents(s1, Tail(pl))

\* run_etl on the parsed record lists: the tables it commits, or ok = FALSE
\* when an insert raises (the reset of the tables is committed before).
RunEtl(breeding, farrowing, deaths, culls, pigs) ==
  LET sow_ids == breeding \cup {r.individual_id : r \in farrowing}
                   \cup deaths \cup culls
      s0 == {NewSow(id, "") : id \in sow_ids}
      ins == InsertSowsFromPiglets(s0, pigs)
      s1 == UpdateSowStatus(ins.sows, deaths, culls)
  IN  IF ins.ok
      THEN [ok |-> TRUE, sows |-> EnrichSowParents(s1, pigs),
            farrowing_records |-> farrowing, piglets |-> pigs]
      ELSE [ok |-> FALSE, sows |-> {}, farrowing_records |-> {},
            piglets |-> <<>>]

\* ---------------------------------------------------------- label generator
\* The columns _build_label reads, by the direction of their criterion, and
\* crit_cols: the _crit_ columns in the order they are added to the frame.
HighCols == <<"total_born", "born_alive", "weaned">>
LowCols == <<"stillborn", "mummified">>
RatioCols == <<"a_rank_shipped_ratio", "w_promotion_rate">>
CritCols == HighCols \o LowCols \o RatioCols

RECURSIVE InsertAsc(_, _)
InsertAsc(x, s) ==
  IF s = <<>> THEN <<x>>
  ELSE IF s[1] <= x THEN <<s[1]>> \o InsertAsc(x, Tail(s))
       ELSE <<x>> \o s

RECURSIVE SortAsc(_)
SortAsc(s) == IF s = <<>> THEN <<>> ELSE InsertAsc(s[1], SortAsc(Tail(s)))

\* s.quantile(q10 / 10) over the values that are not NaN, with linear
\* interpolation between the two nearest ranks: ten times the quantile, so
\* that it stays an integer; None (NaN) when there is no value.
Quantile10(values, q10) ==
  IF values = <<>> THEN None
  ELSE LET x == SortAsc(values)
           h10 == (Len(x) - 1) * q10
           lo == h10 \div 10 + 1
           frac10 == h10 % 10
       IN  Some(IF frac10 = 0 THEN 10 * x[lo]
                ELSE 10 * x[lo] + frac10 * (x[lo + 1] - x[lo]))

\* grp[col] seen from row i: column col of the rows with the parity of row i.
GroupColumn(df, i, col) ==
  LET group == SelectSeq(df, LAMBDA r : r.parity = df[i].parity)
  IN  Present([j \in 1..Len(group) |-> group[j][col]])

\* (df[col] >= p70).astype(int): a comparison with NaN is False.
CritHigh(df, i, col) ==
  LET p70 == Quantile10(GroupColumn(df, i, col), 7)
      v == df[i][col]
  IN  IF ~IsNone(v) /\ ~IsNone(p70) /\ 10 * Val(v) >= Val(p70) THEN 1 ELSE 0

\* (df[col] <= p30).astype(int)
CritLow(df, i, col) ==
  LET p30 == Quantile10(GroupColumn(df, i, col), 3)
      v == df[i][col]
  IN  IF ~IsNone(v) /\ ~IsNone(p30) /\ 10 * Val(v) <= Val(p30) THEN 1 ELSE 0

\* The ratio criteria: 0 when the frame has no such column.
CritRatio(df, columns, i, col) ==
  IF col \in columns THEN CritHigh(df, i, col) ELSE 0

\* The seven _crit_ columns of row i.
Criteria(df, columns, i) ==
  [c \in Range(CritCols) |->
    IF c \in Range(HighCols) THEN CritHigh(df, i, c)
    ELSE IF c \in Range(LowCols) THEN CritLow(df, i, c)
    ELSE CritRatio(df, columns, i, c)]

\* df[crit_cols].sum(axis=1)
CritSum(crit) == SumSeq([j \in 1..Len(CritCols) |-> crit[CritCols[j]]])

\* The label with the bar above four criteria.
IsExcellentAbove4(crit_sum) == IF crit_sum > 4 THEN 1 ELSE 0

\* The label with the bar at three criteria.
IsExcellentFrom3(crit_sum) == IF crit_sum >= 3 THEN 1 ELSE 0

\* (df["_crit_sum"] >= 4).astype(int)
IsExcellent(crit_sum) == IF crit_sum >= 4 THEN 1 ELSE 0

\* _build_label: the frame with is_excellent added; columns names the ratio
\* columns the frame has.
BuildLabel(df, columns) ==
  [i \in 1..Len(df) |->
    [is_excellent |-> IsExcellent(CritSum(Criteria(df, columns, i)))] @@ df[i]]

\* ----------------------------------------------------------- feature matrix
\* pig for one farrowing record: the piglets of the dam born on the day of the
\* farrowing (a NULL dam or date joins nothing).
JoinedPiglets(pg, r) ==
  SelectSeq(pg, LAMBDA p : /\ p.dam_id # "" /\ p.dam_id = r.individual_id
                           /\ p.birth_date # ""
                           /\ p.birth_date = r.farrowing_date)

\* np.where(total > 0, count / total, np.nan)
Ratio(count, total) ==
  IF total > 0 THEN Some(RDiv(count * SCALE, total)) ELSE None

\* One row of the frame after _build_tier3_piglet_quality, with the columns
\* the label is made of; a record without piglets gets NaN from the left merge.
Tier3Row(r, pg) ==
  LET pig == JoinedPiglets(pg, r)
      a_rank_total == Cardinality({i \in 1..Len(pig) :
                                     pig[i].rank \in {"A", "B", "C"}})
      a_rank_shipped_count ==
        Cardinality({i \in 1..Len(pig) : /\ pig[i].rank \in {"A", "B", "C"}
                                         /\ pig[i].ps_shipment = "o"})
      w_rank_total == Cardinality({i \in 1..Len(pig) : pig[i].rank = "W"})
      w_promoted_count ==
        Cardinality({i \in 1..Len(pig) : /\ pig[i].rank = "W"
                                         /\ pig[i].ps_shipment = "W"})
  IN  [individual_id |-> r.individual_id, parity |-> r.parity,
       total_born |-> r.total_born, born_alive |-> r.born_alive,
       stillborn |-> r.stillborn, mummified |-> r.mummified,
       foster |-> r.foster, weaned |-> r.weaned,
       a_rank_shipped_ratio |-> Ratio(a_rank_shipped_count, a_rank_total),
       w_promotion_rate |-> Ratio(w_promoted_count, w_rank_total)]

\* The rows of the sorted frame the row at i stands with in its group, itself
\* included: no shift(1).
PriorRowsAndOwn(rows, i) ==
  SelectSeq(SubSeq(rows, 1, i),
            LAMBDA r : r.individual_id = rows[i].individual_id)

\* The rows of the sorted frame that stand before row i in its group.
PriorRows(rows, i) ==
  SelectSeq(SubSeq(rows, 1, i - 1),
            LAMBDA r : r.individual_id = rows[i].individual_id)

\* expanding().mean() at the last of vals: the mean of the values that are
\* not NaN, NaN when there is none.
ExpandingMean(vals) ==
  LET seen == SelectSeq(vals, LAMBDA v : ~IsNone(v))
  IN  IF seen = <<>> THEN None
      ELSE Some(RDiv(SumSeq([j \in 1..Len(seen) |-> Val(seen[j])]) * SCALE,
                     Len(seen)))

\* expanding().max() at the last of vals.
ExpandingMax(vals) ==
  LET seen == {Val(vals[j]) : j \in {n \in 1..Len(vals) : ~IsNone(vals[n])}}
  IN  IF seen = {} THEN None
      ELSE Some(SCALE * (CHOOSE v \in seen : \A w \in seen : w <= v))

\* _trend at a row with the prior values vals: the least-squares slope of the
\* values that are not NaN over their positions 0, 1, ... among the prior
\* rows; NaN with fewer than two rows or two values.
Trend(vals) ==
  LET at == {j \in 1..Len(vals) : ~IsNone(vals[j])}
      n == Cardinality(at)
      sx == SumSeq([j \in 1..Len(vals) |-> IF j \in at THEN j - 1 ELSE 0])
      sy == SumSeq([j \in 1..Len(vals) |-> IF j \in at THEN Val(vals[j]) ELSE 0])
      sxx == SumSeq([j \in 1..Len(vals) |->
                       IF j \in at THEN (j - 1) * (j - 1) ELSE 0])
      sxy == SumSeq([j \in 1..Len(vals) |->
                       IF j \in at THEN (j - 1) * Val(vals[j]) ELSE 0])
  IN  IF Len(vals) < 2 \/ n < 2 THEN None
      ELSE Some(RDiv((n * sxy - sx * sy) * SCALE, n * sxx - sx * sx))

\* The columns _build_tier2_rolling adds to row i of the sorted frame.
Tier2Row(rows, i) ==
  LET prior == PriorRows(rows, i)
      born_alive == [j \in 1..Len(prior) |-> prior[j].born_alive]
      weaned == [j \in 1..Len(prior) |-> prior[j].weaned]
      stillborn == [j \in 1..Len(prior) |-> prior[j].stillborn]
  IN  [avg_born_alive_prev |-> ExpandingMean(born_alive),
       avg_weaned_prev |-> ExpandingMean(weaned),
       avg_stillborn_prev |-> ExpandingMean(stillborn),
       max_born_alive_prev |-> ExpandingMax(born_alive),
       prev_parity_count |-> Len(prior),
       trend_born_alive |-> Trend(born_alive)]

\* The dam of a sow in the sows table: <<dam_id>>, or <<>> for a NULL dam_id
\* or a sow that is not in the table.
DamOf(sw, child) ==
  LET own == {x \in sw : x.individual_id = child /\ x.dam_id # ""}
  IN  IF own = {} THEN <<>> ELSE <<(CHOOSE x \in own : TRUE).dam_id>>

\* dam_scores: total_score and peak of the dam's sow_scores row.
DamScore(sw, ss, child, col) ==
  LET dam == DamOf(sw, child)
      sc == IF dam = <<>> THEN {} ELSE {x \in ss : x.individual_id = dam[1]}
  IN  IF sc = {} THEN None ELSE Some((CHOOSE x \in sc : TRUE)[col])

\* dam_stats: AVG(fr.born_alive) over the dam's farrowing records.
DamAvgBornAlive(sw, fr, child) ==
  LET dam == DamOf(sw, child)
      recs == IF dam = <<>> THEN <<>>
              ELSE SelectSeq(OrderRows(fr), LAMBDA r :
                     r.individual_id = dam[1] /\ ~IsNone(r.born_alive))
  IN  IF recs = <<>> THEN None
      ELSE Some(RDiv(SumSeq([i \in 1..Len(recs) |-> Val(recs[i].born_alive)])
                     * SCALE, Len(recs)))

\* dam_w: SUM(ps_shipment = 'W') / NULLIF(SUM(rank = 'W'), 0) over the piglets
\* of the dam; no row for a dam without piglets.
DamWPromotionRate(sw, pg, child) ==
  LET dam == DamOf(sw, child)
      own == IF dam = <<>> THEN {}
             ELSE {i \in 1..Len(pg) : pg[i].dam_id = dam[1]}
      promoted == Cardinality({i \in own : pg[i].ps_shipment = "W"})
      w_rank == Cardinality({i \in own : pg[i].rank = "W"})
  IN  IF own = {} \/ w_rank = 0 THEN None
      ELSE Some(RDiv(promoted * SCALE, w_rank))

\* The columns _build_tier4_dam_genetics merges into the row of one sow.
Tier4Row(child, fr, pg, sw, ss) ==
  [dam_total_score |-> DamScore(sw, ss, child, "total_score"),
   dam_peak |-> DamScore(sw, ss, child, "peak"),
   dam_avg_born_alive |-> DamAvgBornAlive(sw, fr, child),
   dam_w_promotion_rate |-> DamWPromotionRate(sw, pg, child)]

\* build_feature_matrix: the records ORDER BY individual_id, parity, the
\* piglet quality and dam columns and the label; the empty frame is returned
\* as it is.
BuildFeatureMatrix(fr, pg, sw, ss) ==
  LET rows == OrderRows(fr)
  IN  IF rows = <<>> THEN <<>>
      ELSE BuildLabel([i \in 1..Len(rows) |->
                         Tier2Row(rows, i) @@ Tier3Row(rows[i], pg)
                         @@ Tier4Row(rows[i].individual_id, fr, pg, sw, ss)],
                      Range(RatioCols))

\* ------------------------------------------------------------------- inputs
\* The most farrowing records one input file holds.
MaxRecords == 3

\* The sows with farrowing records and the litters recorded.
FarrowIds == {"TB1", "TB2", "TB3"}

Litter(date, tb, ba, sb, mm, fo, we) ==
  [farrowing_date |-> date, total_born |-> tb, born_alive |-> ba,
   stillborn |-> sb, mummified |-> mm, foster |-> fo, weaned |-> we]
Litters ==
  { Litter("d1", Some(13), Some(12), Some(1), Some(0), Some(0), Some(10)),
    Litter("d2", Some(13), Some(10), Some(3), Some(1), Some(2), Some(8)),
    Litter("", None, None, None, None, None, Some(0)) }

FarrowingRecord(id, k, l) ==
  [individual_id |-> id, parity |-> k, farrowing_date |-> l.farrowing_date,
   total_born |-> l.total_born, born_alive |-> l.born_alive,
   stillborn |-> l.stillborn, mummified |-> l.mummified,
   foster |-> l.foster, weaned |-> l.weaned]

\* The records of a sow with those litters at consecutive parities.
Career(id, first, litters) ==
  {FarrowingRecord(id, first + i - 1, litters[i]) : i \in 1..Len(litters)}

\* The parities one sow has on file: consecutive, from her first or second.
Histories == {{}, {1}, {2}, {1, 2}, {2, 3}, {1, 2, 3}}

\* The farrowing files: at most MaxRecords records, one per (sow, parity).
FarrowingInputs ==
  LET slotsets == {UNION {{<<id, k>> : k \in h[id]} : id \in FarrowIds} :
                     h \in [FarrowIds -> Histories]}
      chosen == {S \in slotsets : Cardinality(S) <= MaxRecords}
  IN  UNION {{ {FarrowingRecord(sl[1], sl[2], f[sl]) : sl \in S} :
               f \in [S -> Litters]} : S \in chosen}

Piglet(no, dam, rank, ps, date) ==
  [piglet_no |-> no, dam_id |-> dam, rank |-> rank, ps_shipment |-> ps,
   birth_date |-> date]

\* The rest of an input: death and cull lists and the piglet file.  In
\* ps_shipment "W" is a promotion, "o" a sale and "" an empty cell.
Herds ==
  { [deaths |-> {}, culls |-> {}, piglets |-> <<>>],
    [deaths |-> {"TB2"}, culls |-> {"TB4"},
     piglets |-> << Piglet("3", "TB1", "W", "W", "d1"),
                    Piglet("5", "TB1", "W", "", "d1"),
                    Piglet("4", "TB2", "A", "W", "d1"),
                    Piglet("6", "TB2", "B", "o", "d2"),
                    Piglet("7", "TB2", "W", "", "d2") >>] }

\* Every sow of the breeding file.
BreedingIds == {"TB1", "TB2"}

\* The frames _build_label is given: one to three rows over two parities.
LabelRow(tb, ba, we, sb, mm, ar, wr) ==
  [total_born |-> tb, born_alive |-> ba, weaned |-> we, stillborn |-> sb,
   mummified |-> mm, a_rank_shipped_ratio |-> ar, w_promotion_rate |-> wr]
LabelProfiles ==
  { LabelRow(Some(14), Some(13), Some(11), Some(0), Some(0),
             Some(SCALE), Some(SCALE)),
    LabelRow(Some(12), Some(10), Some(9), Some(2), Some(1),
             Some(SCALE \div 2), None),
    LabelRow(Some(14), Some(12), Some(10), Some(1), Some(1), None, None),
    LabelRow(Some(13), Some(12), None, Some(1), Some(0), None, None),
    LabelRow(None, Some(11), Some(10), None, None, Some(0), None),
    LabelRow(None, None, Some(0), None, None, None, None) }
LabelSlots == {<<"TB1", 1>>, <<"TB2", 1>>, <<"TB3", 1>>, <<"TB1", 2>>}

\* The most rows of a frame given to _build_label.
MaxFrameRows == 3

LabelFrames ==
  LET chosen == {S \in SUBSET LabelSlots :
                   S # {} /\ Cardinality(S) <= MaxFrameRows}
  IN  UNION {{ OrderRows({[individual_id |-> sl[1], parity |-> sl[2]] @@ f[sl] :
                            sl \in S}) : f \in [S -> LabelProfiles]} :
             S \in chosen}

\* The farrowing files the classifier is exercised on: five sows with one sow
\* ahead of the rest, five sows with the same litter, two sows, no record.
MLFarrowingInputs ==
  LET l1 == Litter("d1", Some(13), Some(12), Some(1), Some(0), Some(0), Some(10))
      l2 == Litter("d2", Some(13), Some(10), Some(3), Some(1), Some(2), Some(8))
      l3 == Litter("", None, None, None, None, None, Some(0))
  IN  { { FarrowingRecord("TB1", 1, l1), FarrowingRecord("TB1", 2, l1),
          FarrowingRecord("TB2", 1, l2), FarrowingRecord("TB3", 1, l2),
          FarrowingRecord("TB4", 1, l3), FarrowingRecord("TB5", 1, l2) },
        { FarrowingRecord(id, 1, l2) :
            id \in {"TB1", "TB2", "TB3", "TB4", "TB5"} },
        { FarrowingRecord("TB1", 1, l1), FarrowingRecord("TB2", 1, l2) },
        {} }

\* --------------------------------------------------------------- operations
NoRun == [outcome |-> "none", pre_parity |-> {}, pre_sow |-> {}]
NoCall ==
  [op |-> "none", outcome |-> "none", pre_model |-> None, pre_predictions |-> {}]

\* A fresh database: init_db has created the empty tables.
InitDb ==
  /\ sows = {}
  /\ farrowing_records = {}
  /\ piglets = <<>>
  /\ parity_scores = {}
  /\ sow_scores = {}
  /\ ml_predictions = {}
  /\ last_run = NoRun

\* MLEngine.__init__ in a fresh installation: no model, nothing saved.
InitEngine ==
  /\ model = None
  /\ version = ""
  /\ feature_matrix = None
  /\ model_file = None
  /\ now = 0
  /\ ml_call = NoCall

\* The application has not been started.
InitApp ==
  /\ app = "off"
  /\ etl_pc = "idle"
  /\ train_pc = "idle"
  /\ train_btn = TRUE

\* The state file: missing, one that json.load rejects, or the zips recorded.
NoStateFile == [status |-> "missing", zips |-> {}]
BrokenStateFile == [status |-> "broken", zips |-> {}]
StateFile(zips) == [status |-> "ok", zips |-> zips]

\* ZIP_DIR and FARM_DIR are empty: nothing was ever extracted.
InitZipIdle ==
  /\ zip_dir = {}
  /\ farm_files = {}
  /\ farm_links = {}
  /\ zip_state = NoStateFile
  /\ zip_log = <<>>
  /\ zip_writes = {}

\* No groups have been given to GroupKFold, no window is open.
InitIdle ==
  /\ fold_groups = <<>>
  /\ folds = None
  /\ InitApp
  /\ InitZipIdle

Init ==
  /\ InitDb
  /\ InitEngine
  /\ InitIdle
  /\ label_in = <<>>
  /\ label_out = None

\* Where a run_scoring call raises: not at all, in the opening DELETEs and
\* commit, while loading and computing, in the INSERTs, in the last commit.
FailPoints == {"none", "delete", "compute", "insert", "commit"}

\* DELETE FROM parity_scores / sow_scores at the start of run_scoring.
ClearedParityScores == {}
ClearedSowScores == {}

\* run_scoring on the tables fr, sw, pg with the score tables ps, ss: the
\* committed score tables after the call.  An exception leaves what the last
\* commit wrote: the connection is dropped and its open transaction rolled
\* back.
ScoringCommitted(fr, sw, pg, ps, ss, fail_at) ==
  IF fail_at = "delete" THEN [parity_scores |-> ps, sow_scores |-> ss]
  ELSE IF fail_at \in {"compute", "insert", "commit"}
       THEN [parity_scores |-> ClearedParityScores,
             sow_scores |-> ClearedSowScores]
       ELSE [parity_scores |-> ClearedParityScores \cup ScoredParityRows(fr, sw),
             sow_scores |-> ClearedSowScores \cup ScoredSowRows(fr, sw, pg)]

RunOutcome(fail_at, ps, ss) ==
  [outcome |-> IF fail_at = "none" THEN "completed" ELSE "failed",
   pre_parity |-> ps, pre_sow |-> ss]

\* run_scoring(conn) on the database as it is.
RunScoring(fail_at) ==
  LET c == ScoringCommitted(farrowing_records, sows, piglets,
                            parity_scores, sow_scores, fail_at)
  IN  /\ parity_scores' = c.parity_scores
      /\ sow_scores' = c.sow_scores
      /\ last_run' = RunOutcome(fail_at, parity_scores, sow_scores)
      /\ UNCHANGED <<dbVars, labelVars, foldVars, zipVars, mlVars, appVars>>

\* ETLWorker.run on an empty database (MainWindow starts it when sows is
\* empty): run_etl, then run_scoring on the same connection.
ETLWorkerRun(farrowing, herd, fail_at) ==
  /\ sows = {}
  /\ LET e == RunEtl(BreedingIds, farrowing, herd.deaths, herd.culls,
                     herd.piglets)
     IN  /\ sows' = e.sows
         /\ farrowing_records' = e.farrowing_records
         /\ piglets' = e.piglets
         /\ IF e.ok
            THEN LET c == ScoringCommitted(e.farrowing_records, e.sows,
                                           e.piglets, {}, {}, fail_at)
                 IN  /\ parity_scores' = c.parity_scores
                     /\ sow_scores' = c.sow_scores
                     /\ last_run' = RunOutcome(fail_at, {}, {})
            ELSE /\ parity_scores' = {}
                 /\ sow_scores' = {}
                 /\ last_run' = NoRun
  /\ UNCHANGED <<labelVars, foldVars, zipVars, mlVars, appVars>>

\* MainWindow.__init__: an empty sows table starts the ETL worker.
StartEtl ==
  /\ sows = {}
  /\ \E farrowing \in FarrowingInputs, herd \in Herds, fail_at \in FailPoints :
       ETLWorkerRun(farrowing, herd, fail_at)

Next ==
  \/ StartEtl
  \/ \E fail_at \in FailPoints : RunScoring(fail_at)

Spec == Init /\ [][Next]_vars

\* ---------------------------------------------------------- label, applied
\* _build_label on a frame that has both ratio columns, as
\* build_feature_matrix calls it.
BuildLabelStep ==
  /\ IsNone(label_out)
  /\ label_out' = Some(BuildLabel(label_in, Range(RatioCols)))
  /\ UNCHANGED <<label_in, dbVars, scoreVars, last_run, mlVars, foldVars, zipVars,
               appVars>>

InitLabel ==
  /\ InitDb
  /\ InitEngine
  /\ InitIdle
  /\ label_in \in LabelFrames
  /\ label_out = None

NextLabel == BuildLabelStep

SpecLabel == InitLabel /\ [][NextLabel]_vars

\* ----------------------------------------------------------------- MLEngine
\* GroupKFold(n_splits=5)
N_SPLITS == 5

\* The last second of the wall clock.
MaxClock == 2

\* datetime.now() as text.
Strftime(t) == "T" \o ToString(t)

\* X = df[FEATURE_COLS] of one row: the feature columns the frame carries.
Features(row) ==
  <<row.parity, row.total_born, row.born_alive, row.stillborn, row.mummified,
    row.foster, row.weaned, row.avg_born_alive_prev, row.avg_weaned_prev,
    row.avg_stillborn_prev, row.max_born_alive_prev, row.trend_born_alive,
    row.prev_parity_count, row.a_rank_shipped_ratio, row.w_promotion_rate,
    row.dam_total_score, row.dam_peak, row.dam_avg_born_alive,
    row.dam_w_promotion_rate>>

\* The row predict_all inserts: what the booster m makes of the row's
\* features, under the engine's version.
PredictionRow(row, m, ver, t) ==
  [individual_id |-> row.individual_id, parity |-> row.parity,
   pred_excellent_prob |-> [booster |-> m, x |-> Features(row)],
   model_version |-> ver, predicted_at |-> Strftime(t)]

\* "if self._feature_matrix is None: self._feature_matrix = build_..."
CachedFeatureMatrix(fm, fr, pg, sw, ss) ==
  IF IsNone(fm) THEN Some(BuildFeatureMatrix(fr, pg, sw, ss)) ELSE fm

\* What train raises before the final fit: KeyError on the empty frame (it
\* lacks the feature columns), ValueError from GroupKFold on fewer groups
\* than splits, ValueError from roc_auc_score on a single class.
TrainFailure(df) ==
  IF df = <<>> THEN "KeyError"
  ELSE IF Cardinality({df[i].individual_id : i \in 1..Len(df)}) < N_SPLITS
       THEN "ValueError"
  ELSE IF Cardinality({df[i].is_excellent : i \in 1..Len(df)}) < 2
       THEN "ValueError"
  ELSE "none"

\* Where else a train call raises: nowhere, while fitting, while saving.
TrainFailPoints == {"none", "fit", "save"}

Called(op, outcome) ==
  [op |-> op, outcome |-> outcome, pre_model |-> model,
   pre_predictions |-> ml_predictions]

\* MLEngine.train on the tables fr, pg, sw, ss at time t: the frame is kept
\* before anything can raise; the model and its version are set by the final
\* fit, the file is written last.
TrainResult(m, ver, mf, fr, pg, sw, ss, t, fail_at) ==
  LET df == BuildFeatureMatrix(fr, pg, sw, ss)
      fitted == TrainFailure(df) = "none" /\ fail_at # "fit"
      saved == fitted /\ fail_at = "none"
  IN  [feature_matrix |-> Some(df),
       model |-> IF fitted THEN Some(Strftime(t)) ELSE m,
       version |-> IF fitted THEN Strftime(t) ELSE ver,
       model_file |-> IF saved THEN Some(Strftime(t)) ELSE mf,
       outcome |-> IF saved THEN "ok" ELSE "error"]

\* MLEngine.train
Train(fail_at) ==
  LET r == TrainResult(model, version, model_file, farrowing_records, piglets,
                       sows, sow_scores, now, fail_at)
  IN  /\ feature_matrix' = r.feature_matrix
      /\ model' = r.model
      /\ version' = r.version
      /\ model_file' = r.model_file
      /\ ml_call' = Called("train", r.outcome)
      /\ UNCHANGED <<ml_predictions, now, dbVars, scoreVars, last_run,
                     labelVars, foldVars, zipVars, appVars>>

\* predict_all with the DELETE issued and committed ahead of the model check.
PredictAllDeleteFirst(m, ver, fm, fr, pg, sw, ss, preds, t) ==
  IF IsNone(m)
  THEN [outcome |-> "not_trained", feature_matrix |-> fm, ml_predictions |-> {}]
  ELSE LET cached == CachedFeatureMatrix(fm, fr, pg, sw, ss)
           df == Val(cached)
       IN  IF df = <<>>
           THEN [outcome |-> "error", feature_matrix |-> cached,
                 ml_predictions |-> preds]
           ELSE [outcome |-> "ok", feature_matrix |-> cached,
                 ml_predictions |->
                   {PredictionRow(df[i], Val(m), ver, t) : i \in 1..Len(df)}]

\* predict_all without the DELETE: the new rows are written over the old
\* ones, key by key, and the rest of the old rows stay.
PredictAllKeepOld(m, ver, fm, fr, pg, sw, ss, preds, t) ==
  IF IsNone(m)
  THEN [outcome |-> "not_trained", feature_matrix |-> fm,
        ml_predictions |-> preds]
  ELSE LET cached == CachedFeatureMatrix(fm, fr, pg, sw, ss)
           df == Val(cached)
           new == {PredictionRow(df[i], Val(m), ver, t) : i \in 1..Len(df)}
       IN  IF df = <<>>
           THEN [outcome |-> "error", feature_matrix |-> cached,
                 ml_predictions |-> preds]
           ELSE [outcome |-> "ok", feature_matrix |-> cached,
                 ml_predictions |-> preds \cup new]

\* predict_all: RuntimeError without a model, before anything is read or
\* written; KeyError on the empty frame, before the DELETE; else every row of
\* ml_predictions is replaced by the rows of the frame.
PredictAllResult(m, ver, fm, fr, pg, sw, ss, preds, t) ==
  IF IsNone(m)
  THEN [outcome |-> "not_trained", feature_matrix |-> fm,
        ml_predictions |-> preds]
  ELSE LET cached == CachedFeatureMatrix(fm, fr, pg, sw, ss)
           df == Val(cached)
       IN  IF df = <<>>
           THEN [outcome |-> "error", feature_matrix |-> cached,
                 ml_predictions |-> preds]
           ELSE [outcome |-> "ok", feature_matrix |-> cached,
                 ml_predictions |->
                   {PredictionRow(df[i], Val(m), ver, t) : i \in 1..Len(df)}]

\* MLEngine.predict_all
PredictAll ==
  LET r == PredictAllResult(model, version, feature_matrix, farrowing_records,
                            piglets, sows, sow_scores, ml_predictions, now)
  IN  /\ feature_matrix' = r.feature_matrix
      /\ ml_predictions' = r.ml_predictions
      /\ ml_call' = Called("predict_all", r.outcome)
      /\ UNCHANGED <<model, version, model_file, now, dbVars, scoreVars,
                     last_run, labelVars, foldVars, zipVars, appVars>>

\* MLEngine.get_global_shap
GetGlobalShap ==
  /\ IF IsNone(model)
     THEN /\ ml_call' = Called("get_global_shap", "not_trained")
          /\ UNCHANGED feature_matrix
     ELSE LET cached == CachedFeatureMatrix(feature_matrix, farrowing_records,
                                            piglets, sows, sow_scores)
          IN  /\ feature_matrix' = cached
              /\ ml_call' = Called("get_global_shap",
                                   IF Val(cached) = <<>> THEN "error" ELSE "ok")
  /\ UNCHANGED <<model, version, ml_predictions, model_file, now, dbVars,
                 scoreVars, last_run, labelVars, foldVars, zipVars, appVars>>

\* The sows and parities asked of get_individual_shap.
ShapIds == {"TB1", "TB7"}
ShapParities == {None, Some(1), Some(3)}

\* MLEngine.get_individual_shap: None for an empty subset.
GetIndividualShap(individual_id, parity) ==
  /\ IF IsNone(model)
     THEN /\ ml_call' = Called("get_individual_shap", "not_trained")
          /\ UNCHANGED feature_matrix
     ELSE LET cached == CachedFeatureMatrix(feature_matrix, farrowing_records,
                                            piglets, sows, sow_scores)
              subset == SelectSeq(Val(cached), LAMBDA r :
                          /\ r.individual_id = individual_id
                          /\ IsNone(parity) \/ r.parity = Val(parity))
          IN  /\ feature_matrix' = cached
              /\ ml_call' = Called("get_individual_shap",
                                   IF subset = <<>> THEN "none" ELSE "ok")
  /\ UNCHANGED <<model, version, ml_predictions, model_file, now, dbVars,
                 scoreVars, last_run, labelVars, foldVars, zipVars, appVars>>

\* MLEngine.load_model: False without a file, else the saved booster under
\* the version "loaded".
LoadModel ==
  /\ model' = IF IsNone(model_file) THEN model ELSE model_file
  /\ version' = IF IsNone(model_file) THEN version ELSE "loaded"
  /\ ml_call' = Called("load_model", IF IsNone(model_file) THEN "false" ELSE "ok")
  /\ UNCHANGED <<feature_matrix, ml_predictions, model_file, now, dbVars,
                 scoreVars, last_run, labelVars, foldVars, zipVars, appVars>>

\* MLPanel.__init__ in a new process: a new MLEngine over the same database
\* and MODEL_PATH.
NewEngine ==
  /\ model' = None
  /\ version' = ""
  /\ feature_matrix' = None
  /\ ml_call' = NoCall
  /\ UNCHANGED <<ml_predictions, model_file, now, dbVars, scoreVars, last_run,
                 labelVars, foldVars, zipVars, appVars>>

\* A second passes.
Tick ==
  /\ now < MaxClock
  /\ now' = now + 1
  /\ UNCHANGED <<model, version, feature_matrix, ml_predictions, model_file,
                 ml_call, dbVars, scoreVars, last_run, labelVars, foldVars, zipVars,
                 appVars>>

\* MainWindow.__init__ on an empty sows table, with one of the files above.
StartEtlML ==
  /\ sows = {}
  /\ \E farrowing \in MLFarrowingInputs, herd \in Herds :
       ETLWorkerRun(farrowing, herd, "none")

NextML ==
  \/ StartEtlML
  \/ NewEngine
  \/ Tick
  \/ LoadModel
  \/ \E fail_at \in TrainFailPoints : Train(fail_at)
  \/ PredictAll
  \/ GetGlobalShap
  \/ \E id \in ShapIds, parity \in ShapParities : GetIndividualShap(id, parity)

SpecML == Init /\ [][NextML]_vars

\* --------------------------------------------------------------- GroupKFold
\* np.bincount over np.unique(groups): the rows of one group.
SamplesOf(groups, g) == Cardinality({i \in 1..Len(groups) : groups[i] = g})

\* np.argsort(n_samples_per_group)[::-1]: the groups of S by falling number
\* of rows; groups with the same number of rows come in any order.
RECURSIVE FallingOrders(_, _)
FallingOrders(groups, S) ==
  IF S = {} THEN {<<>>}
  ELSE LET top == {g \in S : \A h \in S :
                     SamplesOf(groups, g) >= SamplesOf(groups, h)}
       IN  UNION {{<<g>> \o rest : rest \in FallingOrders(groups, S \ {g})} :
                  g \in top}

\* np.argmin(n_samples_per_fold): the first of the lightest folds.
LightestFold(load) ==
  CHOOSE f \in 1..N_SPLITS :
    /\ \A h \in 1..N_SPLITS : load[f] <= load[h]
    /\ \A h \in 1..(f - 1) : load[h] > load[f]

\* The greedy loop of GroupKFold: each group, heaviest first, goes to the
\* fold that is lightest so far.
RECURSIVE AssignFolds(_, _, _, _)
AssignFolds(groups, order, load, group_to_fold) ==
  IF order = <<>> THEN group_to_fold
  ELSE LET g == order[1]
           f == LightestFold(load)
       IN  AssignFolds(groups, Tail(order),
                       [load EXCEPT ![f] = @ + SamplesOf(groups, g)],
                       [group_to_fold EXCEPT ![g] = f])

GroupToFold(groups, order) ==
  AssignFolds(groups, order, [f \in 1..N_SPLITS |-> 0],
              [g \in Range(groups) |-> 0])

\* The fold of a row taken from the row's position, not from its group.
FoldOfRowByIndex(groups, group_to_fold, i) == ((i - 1) % N_SPLITS) + 1

\* indices = group_to_fold[groups]
FoldOfRow(groups, group_to_fold, i) == group_to_fold[groups[i]]

\* gkf.split(X, y, groups): (train_idx, val_idx) of each of the folds.
Split(groups, order) ==
  LET group_to_fold == GroupToFold(groups, order)
      rows == 1..Len(groups)
  IN  [f \in 1..N_SPLITS |->
        [val_idx |-> {i \in rows : FoldOfRow(groups, group_to_fold, i) = f},
         train_idx |-> {i \in rows : FoldOfRow(groups, group_to_fold, i) # f}]]

\* The most feature rows of one sow, and the sows of a groups array.
MaxRowsPerSow == 2
FoldSows == {"TB1", "TB2", "TB3", "TB4", "TB5", "TB6"}

\* groups = df["individual_id"].values of a frame ORDER BY individual_id,
\* parity, with rows[g] rows of sow g.
GroupsArray(rows) ==
  Concat([i \in 1..Len(IdOrder) |->
           IF IdOrder[i] \in DOMAIN rows
           THEN [j \in 1..rows[IdOrder[i]] |-> IdOrder[i]] ELSE <<>>])

\* The groups arrays: every sow with up to MaxRowsPerSow rows, over at least
\* one sow less than there are folds.
FoldInputs ==
  {GroupsArray(rows) :
     rows \in {c \in [FoldSows -> 0..MaxRowsPerSow] :
                 Cardinality({g \in FoldSows : c[g] > 0}) >= N_SPLITS - 1}}

\* gkf.split in train: ValueError (no folds) on fewer groups than splits.
GroupKFoldSplit ==
  /\ IsNone(folds)
  /\ Cardinality(Range(fold_groups)) >= N_SPLITS
  /\ \E order \in FallingOrders(fold_groups, Range(fold_groups)) :
       folds' = Some(Split(fold_groups, order))
  /\ UNCHANGED <<fold_groups, dbVars, scoreVars, last_run, labelVars, mlVars,
                 appVars, zipVars>>

InitFolds ==
  /\ InitDb
  /\ InitEngine
  /\ label_in = <<>>
  /\ label_out = None
  /\ fold_groups \in FoldInputs
  /\ folds = None
  /\ InitApp
  /\ InitZipIdle

NextFolds == GroupKFoldSplit

SpecFolds == InitFolds /\ [][NextFolds]_vars

\* ------------------------------------------------------- scoring one cohort
\* Farrowing files of three sows whose first litters differ in born_alive and
\* weaned only; a sow may have a second litter on file.
CohortSows == {"TB1", "TB2", "TB3"}
CohortLitter(ba, we) ==
  Litter("d1", Some(14), Some(ba), Some(1), Some(0), Some(0), Some(we))
CohortChoices == [born_alive : {10, 12, 14}, weaned : {9, 10}, second : BOOLEAN]
CohortInputs ==
  { UNION {{FarrowingRecord(id, 1, CohortLitter(c[id].born_alive, c[id].weaned))}
           \cup (IF c[id].second
                 THEN {FarrowingRecord(id, 2, CohortLitter(12, 9))} ELSE {}) :
           id \in CohortSows} :
    c \in [CohortSows -> CohortChoices] }

\* MainWindow.__init__ on an empty sows table, with one of the files above
\* and no piglet file.
StartEtlCohort ==
  /\ sows = {}
  /\ \E farrowing \in CohortInputs :
       ETLWorkerRun(farrowing, [deaths |-> {}, culls |-> {}, piglets |-> <<>>],
                    "none")

NextCohort == StartEtlCohort

SpecCohort == Init /\ [][NextCohort]_vars

\* -------------------------------------------------- features of prior parities
\* Farrowing files of two sows.  TB1 has up to MaxPrior litters from her first
\* parity on, each one of three kinds, one of them with empty cells; TB2 has
\* no record, one, or two.
MaxPrior == 4
LitterSmall == Litter("d1", Some(11), Some(10), Some(1), Some(0), Some(0), Some(9))
LitterLarge == Litter("d2", Some(16), Some(13), Some(3), Some(0), Some(0), Some(11))
LitterBlank == Litter("d3", None, None, None, None, None, None)
PriorInputs ==
  LET first == UNION {{Career("TB1", 1, litters) :
                         litters \in [1..k -> {LitterSmall, LitterLarge,
                                               LitterBlank}]} :
                      k \in 1..MaxPrior}
      second == { {}, Career("TB2", 1, <<LitterSmall>>),
                  Career("TB2", 1, <<LitterLarge, LitterSmall>>) }
  IN  {a \cup b : a \in first, b \in second}

\* The first read of the features by an engine that has no frame yet:
\* "if self._feature_matrix is None: self._feature_matrix = build_..."
BuildFeatureMatrixStep ==
  /\ IsNone(feature_matrix)
  /\ feature_matrix' = CachedFeatureMatrix(feature_matrix, farrowing_records,
                                           piglets, sows, sow_scores)
  /\ UNCHANGED <<model, version, ml_predictions, model_file, now, ml_call,
                 dbVars, scoreVars, last_run, labelVars, foldVars, zipVars,
                 appVars>>

\* A database that holds one of the files above, and a new engine.
InitPrior ==
  /\ farrowing_records \in PriorInputs
  /\ sows = {NewSow(id, "") : id \in {f.individual_id : f \in farrowing_records}}
  /\ piglets = <<>>
  /\ parity_scores = {}
  /\ sow_scores = {}
  /\ ml_predictions = {}
  /\ last_run = NoRun
  /\ InitEngine
  /\ label_in = <<>>
  /\ label_out = None
  /\ InitIdle

NextPrior == BuildFeatureMatrixStep

SpecPrior == InitPrior /\ [][NextPrior]_vars

\* ------------------------------------------------------ scoring whole careers
\* Farrowing files of three sows whose litters differ in stillborn and
\* mummified only.  TB1 has up to MaxCareer litters from her first or second
\* parity on, TB2 one of four careers, TB3 a litter at every parity.
MaxCareer == 4
LitterFewStillborn ==
  Litter("d1", Some(14), Some(12), Some(1), Some(1), Some(0), Some(10))
LitterMoreStillborn ==
  Litter("d1", Some(14), Some(12), Some(2), Some(0), Some(0), Some(10))
CareersOfFirst ==
  UNION {{Career("TB1", first, litters) :
            litters \in [1..k -> {LitterFewStillborn, LitterMoreStillborn}]} :
         first \in {1, 2}, k \in 1..MaxCareer}
CareersOfSecond ==
  { Career("TB2", 1, <<LitterFewStillborn>>),
    Career("TB2", 2, <<LitterFewStillborn>>),
    Career("TB2", 1, <<LitterMoreStillborn, LitterFewStillborn>>),
    Career("TB2", 1, <<LitterFewStillborn, LitterMoreStillborn,
                       LitterFewStillborn>>) }
CareerInputs ==
  {a \cup b \cup Career("TB3", 1, [i \in 1..(MaxCareer + 1) |-> LitterFewStillborn]) :
     a \in CareersOfFirst, b \in CareersOfSecond}

\* MainWindow.__init__ on an empty sows table, with one of the files above
\* and no piglet file.
StartEtlCareer ==
  /\ sows = {}
  /\ \E farrowing \in CareerInputs :
       ETLWorkerRun(farrowing, [deaths |-> {}, culls |-> {}, piglets |-> <<>>],
                    "none")

NextCareer == StartEtlCareer

SpecCareer == Init /\ [][NextCareer]_vars

\* -------------------------------------------------------------- application
\* MainWindow.__init__: a new MLPanel with a new MLEngine and an enabled train
\* button; then run_scoring on the main thread when there are sows without
\* sow_scores (an exception ends the start), or the ETLWorker when there are
\* no sows.
MainWindowInit ==
  /\ app = "off"
  /\ model' = None
  /\ version' = ""
  /\ feature_matrix' = None
  /\ ml_call' = NoCall
  /\ train_btn' = TRUE
  /\ train_pc' = "idle"
  /\ IF sows # {}
     THEN /\ etl_pc' = "idle"
          /\ IF sow_scores = {}
             THEN \E fail_at \in FailPoints :
                    LET c == ScoringCommitted(farrowing_records, sows, piglets,
                                              parity_scores, sow_scores, fail_at)
                    IN  /\ parity_scores' = c.parity_scores
                        /\ sow_scores' = c.sow_scores
                        /\ last_run' = RunOutcome(fail_at, parity_scores,
                                                  sow_scores)
                        /\ app' = IF fail_at = "none" THEN "on" ELSE "off"
             ELSE /\ app' = "on"
                  /\ UNCHANGED <<scoreVars, last_run>>
     ELSE /\ app' = "on"
          /\ etl_pc' = "reset"
          /\ UNCHANGED <<scoreVars, last_run>>
  /\ UNCHANGED <<dbVars, ml_predictions, model_file, now, labelVars, foldVars, zipVars>>

\* ETLWorker.run, first commit: reset_data_tables.
EtlReset ==
  /\ etl_pc = "reset"
  /\ sows' = {}
  /\ farrowing_records' = {}
  /\ piglets' = <<>>
  /\ parity_scores' = {}
  /\ sow_scores' = {}
  /\ etl_pc' = "load"
  /\ UNCHANGED <<last_run, labelVars, foldVars, zipVars, mlVars, app, train_pc,
                 train_btn>>

\* ETLWorker.run, second commit: the files are loaded and inserted; an
\* exception ends the worker with the tables empty.
EtlLoad(farrowing, herd) ==
  /\ etl_pc = "load"
  /\ LET e == RunEtl(BreedingIds, farrowing, herd.deaths, herd.culls,
                     herd.piglets)
     IN  /\ sows' = e.sows
         /\ farrowing_records' = e.farrowing_records
         /\ piglets' = e.piglets
         /\ etl_pc' = IF e.ok THEN "delete" ELSE "idle"
  /\ UNCHANGED <<scoreVars, last_run, labelVars, foldVars, zipVars, mlVars, app,
                 train_pc, train_btn>>

\* ETLWorker.run, third commit: the DELETEs of run_scoring; an exception
\* ends the worker with the score tables as they were.
ScoringDelete(ok) ==
  /\ etl_pc = "delete"
  /\ LET fail_at == IF ok THEN "compute" ELSE "delete"
         c == ScoringCommitted(farrowing_records, sows, piglets,
                               parity_scores, sow_scores, fail_at)
     IN  /\ parity_scores' = c.parity_scores
         /\ sow_scores' = c.sow_scores
         /\ last_run' = RunOutcome(fail_at, parity_scores, sow_scores)
  /\ etl_pc' = IF ok THEN "insert" ELSE "idle"
  /\ UNCHANGED <<dbVars, labelVars, foldVars, zipVars, mlVars, app, train_pc,
                 train_btn>>

\* ETLWorker.run, last commit: the rows run_scoring computed; an exception
\* ends the worker with the score tables empty.
ScoringInsert(ok) ==
  /\ etl_pc = "insert"
  /\ LET c == ScoringCommitted(farrowing_records, sows, piglets,
                               parity_scores, sow_scores,
                               IF ok THEN "none" ELSE "insert")
     IN  /\ parity_scores' = c.parity_scores
         /\ sow_scores' = c.sow_scores
  /\ last_run' = [last_run EXCEPT !.outcome = IF ok THEN "completed" ELSE @]
  /\ etl_pc' = "idle"
  /\ UNCHANGED <<dbVars, labelVars, foldVars, zipVars, mlVars, app, train_pc,
                 train_btn>>

\* MLPanel._on_train: the button is disabled and the _TrainWorker started.
OnTrain ==
  /\ app = "on"
  /\ train_btn
  /\ train_btn' = FALSE
  /\ train_pc' = "train"
  /\ UNCHANGED <<dbVars, scoreVars, last_run, labelVars, foldVars, zipVars, mlVars,
                 app, etl_pc>>

\* _TrainWorker.run: engine.train; an exception ends the worker with the
\* error signal.
WorkerTrain(fail_at) ==
  /\ train_pc = "train"
  /\ LET r == TrainResult(model, version, model_file, farrowing_records,
                          piglets, sows, sow_scores, now, fail_at)
     IN  /\ feature_matrix' = r.feature_matrix
         /\ model' = r.model
         /\ version' = r.version
         /\ model_file' = r.model_file
         /\ ml_call' = Called("train", r.outcome)
         /\ train_pc' = IF r.outcome = "ok" THEN "predict_all" ELSE "error"
  /\ UNCHANGED <<ml_predictions, now, dbVars, scoreVars, last_run, labelVars,
                 foldVars, zipVars, app, etl_pc, train_btn>>

\* _TrainWorker.run: engine.predict_all.
WorkerPredictAll ==
  /\ train_pc = "predict_all"
  /\ LET r == PredictAllResult(model, version, feature_matrix,
                               farrowing_records, piglets, sows, sow_scores,
                               ml_predictions, now)
     IN  /\ feature_matrix' = r.feature_matrix
         /\ ml_predictions' = r.ml_predictions
         /\ ml_call' = Called("predict_all", r.outcome)
         /\ train_pc' = IF r.outcome = "ok" THEN "get_global_shap" ELSE "error"
  /\ UNCHANGED <<model, version, model_file, now, dbVars, scoreVars, last_run,
                 labelVars, foldVars, zipVars, app, etl_pc, train_btn>>

\* _TrainWorker.run: engine.get_global_shap, then the finished signal; an
\* exception ends the worker with the error signal.
WorkerGlobalShap ==
  /\ train_pc = "get_global_shap"
  /\ LET cached == CachedFeatureMatrix(feature_matrix, farrowing_records,
                                       piglets, sows, sow_scores)
         outcome == IF Val(cached) = <<>> THEN "error" ELSE "ok"
     IN  /\ feature_matrix' = cached
         /\ ml_call' = Called("get_global_shap", outcome)
         /\ train_pc' = IF outcome = "ok" THEN "finished" ELSE "error"
  /\ UNCHANGED <<model, version, ml_predictions, model_file, now, dbVars,
                 scoreVars, last_run, labelVars, foldVars, zipVars, app, etl_pc,
                 train_btn>>

\* MLPanel._on_train_done, the slot of the finished signal: its first
\* statement enables the button.
OnTrainDone ==
  /\ train_pc = "finished"
  /\ train_btn' = TRUE
  /\ train_pc' = "idle"
  /\ UNCHANGED <<dbVars, scoreVars, last_run, labelVars, foldVars, zipVars,
                 mlVars, app, etl_pc>>

\* A slot of the error signal that leaves the button as it is.
OnTrainErrorButtonLeft ==
  /\ train_pc = "error"
  /\ train_btn' = train_btn
  /\ train_pc' = "idle"
  /\ UNCHANGED <<dbVars, scoreVars, last_run, labelVars, foldVars, zipVars,
                 mlVars, app, etl_pc>>

\* MLPanel._on_train_error, the slot of the error signal.
OnTrainError ==
  /\ train_pc = "error"
  /\ train_btn' = TRUE
  /\ train_pc' = "idle"
  /\ UNCHANGED <<dbVars, scoreVars, last_run, labelVars, foldVars, zipVars,
                 mlVars, app, etl_pc>>

\* The window is closed with no worker running.
Quit ==
  /\ app = "on"
  /\ etl_pc = "idle"
  /\ train_pc = "idle"
  /\ app' = "off"
  /\ UNCHANGED <<dbVars, scoreVars, last_run, labelVars, foldVars, zipVars, mlVars,
                 etl_pc, train_pc, train_btn>>

\* The piglet files of the application runs: those above and one with a dam,
\* TB2, that has a promoted daughter and no W-rank piglet.
AppHerds ==
  Herds \cup
  { [deaths |-> {}, culls |-> {},
     piglets |-> << Piglet("3", "TB1", "W", "W", "d1"),
                    Piglet("5", "TB1", "W", "", "d1"),
                    Piglet("2", "TB1", "A", "o", "d1"),
                    Piglet("4", "TB2", "A", "W", "d2"),
                    Piglet("7", "TB2", "B", "o", "d2"),
                    Piglet("6", "TB5", "W", "", "d2") >>] }

NextApp ==
  \/ MainWindowInit
  \/ EtlReset
  \/ \E farrowing \in MLFarrowingInputs, herd \in AppHerds :
       EtlLoad(farrowing, herd)
  \/ \E ok \in BOOLEAN : ScoringDelete(ok)
  \/ \E ok \in BOOLEAN : ScoringInsert(ok)
  \/ OnTrain
  \/ \E fail_at \in TrainFailPoints : WorkerTrain(fail_at)
  \/ WorkerPredictAll
  \/ WorkerGlobalShap
  \/ OnTrainDone
  \/ OnTrainError
  \/ Quit

SpecApp == Init /\ [][NextApp]_vars

\* The application with its event loop: a signal the worker emitted is
\* delivered to its slot.
SpecAppLive ==
  SpecApp /\ WF_vars(OnTrainDone) /\ WF_vars(OnTrainError)

\* ------------------------------------------------------ zip extract service
\* A member name is a sequence of characters.  A path is the sequence of its
\* components below the root of the drive, each a sequence of characters.
FARM_DIR == << <<"t", "r", "e", "e">>, <<"f", "a", "r", "m">> >>
STATE_FILENAME == <<".", "s", "t", "a", "t", "e">>
LOG_FILENAME == <<"l", "o", "g">>
\* The name a state file that cannot be read is moved to.
STATE_BROKEN_BACKUP == <<".", "s", "t", "a", "t", "e", ".", "b", "r", "o", "k", "e", "n">>
\* The name mkstemp gives a temporary file.
TMP_NAME == <<".", "z", "i", "p", "_", "t", "m", "p", "_">>

Front(s) == IF s = <<>> THEN <<>> ELSE SubSeq(s, 1, Len(s) - 1)
StartsWith(path, dir) ==
  Len(path) >= Len(dir) /\ SubSeq(path, 1, Len(dir)) = dir

RECURSIVE Components(_, _)
\* name.split("/"), cur being the component read so far.
Components(name, cur) ==
  IF name = <<>> THEN <<cur>>
  ELSE IF Head(name) = "/" THEN <<cur>> \o Components(Tail(name), <<>>)
  ELSE Components(Tail(name), Append(cur, Head(name)))

RECURSIVE LStrip(_)
LStrip(name) ==
  IF name # <<>> /\ Head(name) = " " THEN LStrip(Tail(name)) ELSE name

RECURSIVE RStrip(_)
RStrip(name) ==
  IF name # <<>> /\ name[Len(name)] = " " THEN RStrip(Front(name)) ELSE name

\* str.strip()
Strip(name) == RStrip(LStrip(name))

HasDrive(name) == Len(name) >= 2 /\ name[2] = ":"
HasDotDot(name) ==
  \E i \in 1..(Len(name) - 1) : name[i] = "." /\ name[i + 1] = "."
IsPart(c) == c # <<>> /\ c # <<".">>

\* dir / name: empty and "." components vanish, a rooted name starts at the
\* root and a name with a drive on that drive.
JoinPath(dir, name) ==
  LET rel == IF HasDrive(name) THEN SubSeq(name, 3, Len(name)) ELSE name
      parts == SelectSeq(Components(rel, <<>>), IsPart)
  IN IF HasDrive(name) THEN <<SubSeq(name, 1, 2)>> \o parts
     ELSE IF name # <<>> /\ name[1] = "/" THEN parts
     ELSE dir \o parts

RECURSIVE Resolve(_, _, _)
\* Path.resolve(): ".." steps up, a symlink is replaced by its target.
Resolve(done, rest, links) ==
  IF rest = <<>> THEN done
  ELSE LET at == IF Head(rest) = <<".", ".">> THEN Front(done)
                 ELSE Append(done, Head(rest))
           here == {l \in links : l.at = at}
       IN Resolve(IF here = {} THEN at ELSE (CHOOSE l \in here : TRUE).to,
                  Tail(rest), links)

\* _is_safe_extract_path without its last test, the resolved path.
IsSafeName(member_name) ==
  /\ member_name # <<>>
  /\ Strip(member_name) \notin {<<>>, <<".">>}
  /\ ~HasDrive(member_name)
  /\ member_name[1] # "/"
  /\ ~HasDotDot(member_name)

IsSafeExtractPath(member_name, farm_dir, links) ==
  /\ IsSafeName(member_name)
  /\ StartsWith(Resolve(<<>>, JoinPath(farm_dir, member_name), links),
                Resolve(<<>>, farm_dir, links))

IsFile(files, path) == \E f \in files : f.path = path
IsDir(files, path) ==
  \/ StartsWith(FARM_DIR, path)
  \/ \E f \in files : f.path # path /\ StartsWith(f.path, path)
\* mkdir(parents=True, exist_ok=True) raises when a file is in the way.
MkdirFails(files, dir) ==
  \E n \in 1..Len(dir) : IsFile(files, SubSeq(dir, 1, n))

LogLine(kind, zip_name, member) ==
  [kind |-> kind, zip |-> zip_name, member |-> member]

\* target.parent of the member, every symlink on the way followed.
TargetParent(name, links) ==
  Resolve(<<>>, Front(JoinPath(FARM_DIR, name)), links)

\* Where os.replace puts the member.
OnDisk(name, links) ==
  LET target == JoinPath(FARM_DIR, name)
  IN IF target = <<>> THEN <<>>
     ELSE Append(TargetParent(name, links), target[Len(target)])

\* One turn of the loop over zf.infolist(): acc holds the files on disk, the
\* log, the paths written, and raised once an exception left the loop.
ExtractMember(acc, zip, info, links) ==
  LET name == info.filename
      parent == TargetParent(name, links)
      tmp_path == Append(parent, TMP_NAME)
      on_disk == OnDisk(name, links)
  IN IF acc.raised THEN acc
     ELSE IF name # <<>> /\ name[Len(name)] = "/" THEN acc
     ELSE IF ~IsSafeExtractPath(name, FARM_DIR, links)
       THEN [acc EXCEPT !.log = Append(@, LogLine("unsafe", zip.name, name))]
     ELSE IF MkdirFails(acc.files, parent)
       THEN [acc EXCEPT !.raised = TRUE,
                        !.log = Append(@, LogLine("failed", zip.name, <<>>))]
     ELSE IF IsDir(acc.files, on_disk)
       THEN [acc EXCEPT !.writes = @ \cup {tmp_path},
                        !.log = Append(@, LogLine("error", zip.name, name))]
     ELSE [acc EXCEPT
             !.files = {f \in @ : f.path # on_disk}
                         \cup {[path |-> on_disk, data |-> info.data]},
             !.writes = @ \cup {tmp_path, on_disk}]

RECURSIVE ExtractMembers(_, _, _, _)
ExtractMembers(acc, zip, infolist, links) ==
  IF infolist = <<>> THEN acc
  ELSE ExtractMembers(ExtractMember(acc, zip, Head(infolist), links), zip,
                      Tail(infolist), links)

\* _extract_one_zip: a zip that cannot be opened raises BadZipFile.
ExtractOneZip(acc, zip, links) ==
  IF zip.bad
  THEN [acc EXCEPT !.raised = TRUE,
                   !.log = Append(@, LogLine("failed", zip.name, <<>>))]
  ELSE ExtractMembers(acc, zip, zip.members, links)

\* _load_state: no file, or a broken one, reads as no zip recorded.
LoadState(state_file) ==
  IF state_file.status = "ok" THEN state_file.zips ELSE {}

\* The zips of ZIP_DIR in the order of the two sorted globs, which on Windows
\* both match every zip, less the names already seen in lower case.
ZipOrder == <<"a.zip", "B.ZIP">>
Lower(zip_name) == IF zip_name = "B.ZIP" THEN "b.zip" ELSE zip_name
ZipsFound(dir) ==
  LET present == SelectSeq(ZipOrder, LAMBDA n : \E z \in dir : z.name = n)
  IN present \o present
RECURSIVE UniqueZips(_, _)
UniqueZips(found, seen_basename) ==
  IF found = <<>> THEN <<>>
  ELSE IF Lower(Head(found)) \in seen_basename
    THEN UniqueZips(Tail(found), seen_basename)
  ELSE <<Head(found)>>
         \o UniqueZips(Tail(found), seen_basename \cup {Lower(Head(found))})

ZipFingerprint(zip) == [mtime |-> zip.mtime, size |-> zip.size]

\* The turn of a loop that extracts the zip whatever the state file holds.
ProcessZipNoSkip(acc, zip, links) ==
  LET fp == ZipFingerprint(zip)
      prev == {p \in acc.state : p.name = zip.name}
      done == ExtractOneZip([acc EXCEPT !.raised = FALSE], zip, links)
  IN IF done.raised
     THEN [done EXCEPT !.raised = FALSE,
                       !.log = Append(@, LogLine("skipped", zip.name, <<>>))]
     ELSE [done EXCEPT
             !.state = (@ \ prev) \cup {[name |-> zip.name, mtime |-> fp.mtime,
                                         size |-> fp.size]},
             !.writes = @ \cup {Append(FARM_DIR, STATE_FILENAME)},
             !.log = Append(@, LogLine("extracted, updated state", zip.name,
                                       <<>>))]

\* One turn of the loop of extract_all_zips_on_start over unique_zips.
ProcessZip(acc, zip, links) ==
  LET fp == ZipFingerprint(zip)
      prev == {p \in acc.state : p.name = zip.name}
      done == ExtractOneZip([acc EXCEPT !.raised = FALSE], zip, links)
  IN IF \E p \in prev : p.mtime = fp.mtime /\ p.size = fp.size
     THEN [acc EXCEPT !.log = Append(@, LogLine("skip/no change", zip.name, <<>>))]
     ELSE IF done.raised
       THEN [done EXCEPT !.raised = FALSE,
                         !.log = Append(@, LogLine("skipped", zip.name, <<>>))]
     ELSE [done EXCEPT
             !.state = (@ \ prev) \cup {[name |-> zip.name, mtime |-> fp.mtime,
                                         size |-> fp.size]},
             !.writes = @ \cup {Append(FARM_DIR, STATE_FILENAME)},
             !.log = Append(@, LogLine("extracted, updated state", zip.name,
                                       <<>>))]

RECURSIVE ProcessZips(_, _, _, _)
ProcessZips(acc, names, dir, links) ==
  IF names = <<>> THEN acc
  ELSE ProcessZips(ProcessZip(acc, CHOOSE z \in dir : z.name = Head(names),
                              links),
                   Tail(names), dir, links)

\* extract_all_zips_on_start: the state after the run.
ExtractAllResult(dir, files, links, state_file) ==
  LET start == [files |-> files, state |-> LoadState(state_file),
                log |-> <<>>, raised |-> FALSE,
                writes |-> {Append(FARM_DIR, LOG_FILENAME)}
                             \cup IF state_file.status = "broken"
                                    THEN {Append(FARM_DIR, STATE_BROKEN_BACKUP)}
                                  ELSE {}]
      after == ProcessZips(start, UniqueZips(ZipsFound(dir), {}), dir, links)
      saved == \E i \in 1..Len(after.log) :
                 after.log[i].kind = "extracted, updated state"
  IN [after EXCEPT !.state = IF saved THEN StateFile(after.state)
                             ELSE IF state_file.status = "broken"
                               THEN NoStateFile
                             ELSE state_file]

\* The application starts: main() calls extract_all_zips_on_start.
ExtractAllZipsOnStart ==
  LET r == ExtractAllResult(zip_dir, farm_files, farm_links, zip_state)
  IN /\ farm_files' = r.files
     /\ zip_state' = r.state
     /\ zip_log' = r.log
     /\ zip_writes' = r.writes
     /\ UNCHANGED <<zip_dir, farm_links, dbVars, scoreVars, last_run,
                    labelVars, foldVars, mlVars, appVars>>

\* The member names the archives carry.
NameA == <<"a">>
NameB == <<"b">>
NameSub == <<"d", "/", "a">>
NameDirEntry == <<"d", "/">>
NameUnderFile == <<"a", "/", "b">>
NameUp == <<".", ".", "/", "e">>
NameRooted == <<"/", "e">>
NameDrive == <<"C", ":", "e">>
NameDots == <<"a", ".", ".", "b">>
NameBlank == <<" ">>
NameLink == <<"l", "/", "e">>
NameSelf == <<".", "/", ".">>

MemberLists ==
  { <<NameA, NameSub>>,
    <<NameUp, NameA, NameRooted, NameB>>,
    <<NameDrive, <<>>, NameBlank, NameLink, NameDots, NameB>>,
    <<NameDirEntry, NameSelf, NameSub>>,
    <<NameA, NameUnderFile, NameB>> }

MaxMtime == 2

\* The archive of that name, modified at mtime, its members in that order.
ZipFile(zip_name, mtime, names, bad) ==
  [name |-> zip_name, mtime |-> mtime, size |-> Len(names), bad |-> bad,
   members |-> [i \in 1..Len(names) |->
                  [filename |-> names[i],
                   data |-> <<zip_name, mtime, i>>]]]

\* The symlink FARM_DIR/l points at a directory next to FARM_DIR.
OutsideLink ==
  [at |-> Append(FARM_DIR, <<"l">>),
   to |-> <<FARM_DIR[1], <<"o", "u", "t">> >>]

\* The user puts a zip into ZIP_DIR, or replaces one by a newer version.
PutZip(zip_name, names, bad) ==
  LET old == {z \in zip_dir : z.name = zip_name}
      mtime == IF old = {} THEN 1 ELSE (CHOOSE z \in old : TRUE).mtime + 1
  IN /\ mtime <= MaxMtime
     /\ zip_dir' = (zip_dir \ old) \cup {ZipFile(zip_name, mtime, names, bad)}
     /\ UNCHANGED <<farm_files, farm_links, zip_state, zip_log, zip_writes,
                    dbVars, scoreVars, last_run, labelVars, foldVars, mlVars,
                    appVars>>

InitZip ==
  /\ InitDb
  /\ InitEngine
  /\ label_in = <<>>
  /\ label_out = None
  /\ fold_groups = <<>>
  /\ folds = None
  /\ InitApp
  /\ zip_dir = {}
  /\ farm_files = {}
  /\ farm_links \in {{}, {OutsideLink}}
  /\ zip_state \in {NoStateFile, BrokenStateFile}
  /\ zip_log = <<>>
  /\ zip_writes = {}

NextZip ==
  \/ ExtractAllZipsOnStart
  \/ \E n \in Range(ZipOrder), names \in MemberLists : PutZip(n, names, FALSE)
  \/ \E n \in Range(ZipOrder) : PutZip(n, <<>>, TRUE)

SpecZip == InitZip /\ [][NextZip]_vars

\* =============================================================== properties
Completed == last_run.outcome = "completed"
StatusOf(id) == (CHOOSE x \in sows : x.individual_id = id).status
CohortRows(k) == {r \in parity_scores : r.parity = k}
ScoredParities == {r.parity : r \in parity_scores}
RecordsOf(id) == {f \in farrowing_records : f.individual_id = id}
RecordsAt(k) == {f \in farrowing_records : f.parity = k}

\* The rank_all values of rows are 1..N, each once, and a smaller rank_all
\* never goes with a lower score.
RankAllOrdered(rows, col) ==
  /\ {r.rank_all : r \in rows} = 1..Cardinality(rows)
  /\ \A a, b \in rows : a.rank_all < b.rank_all => a[col] >= b[col]

\* C1: after run_scoring completes, in every parity cohort of parity_scores
\* rank_all takes the values 1..N once each and a row with a smaller rank_all
\* never has a lower parity_score than a row with a larger one; the same holds
\* in sow_scores with total_score.
C1_RankAllDense ==
  Completed =>
    /\ \A k \in ScoredParities : RankAllOrdered(CohortRows(k), "parity_score")
    /\ RankAllOrdered(sow_scores, "total_score")

\* A completed run with a cohort of three rows of different scores and at
\* least two sows of different total_score.
C1_Witness ==
  /\ Completed
  /\ \E k \in ScoredParities :
       /\ Cardinality(CohortRows(k)) = 3
       /\ \E a, b \in CohortRows(k) : a.parity_score > b.parity_score
  /\ \E a, b \in sow_scores : a.total_score > b.total_score

\* rank_active is None exactly off the active sows, 1..M on them, and in the
\* order of rank_all.
RankActiveRestricts(rows) ==
  LET act == {r \in rows : StatusOf(r.individual_id) = "active"}
  IN  /\ \A r \in rows :
           IsNone(r.rank_active) <=> StatusOf(r.individual_id) # "active"
      /\ {Val(r.rank_active) : r \in act} = 1..Cardinality(act)
      /\ \A a, b \in act :
           a.rank_all < b.rank_all => Val(a.rank_active) < Val(b.rank_active)

\* C2: after run_scoring completes, in every parity cohort and in sow_scores
\* rank_active is null exactly for the rows of sows whose status is not
\* 'active', the active rows carry rank_active 1..M without gaps or repeats,
\* and two active rows are ordered by rank_active as they are by rank_all.
C2_RankActiveSubsequence ==
  Completed =>
    /\ \A k \in ScoredParities : RankActiveRestricts(CohortRows(k))
    /\ RankActiveRestricts(sow_scores)

\* A completed run with a cohort where a sow that is not active is ranked
\* between two active sows.
C2_Witness ==
  /\ Completed
  /\ \E k \in ScoredParities : \E a, b, c \in CohortRows(k) :
       /\ a.rank_all < b.rank_all /\ b.rank_all < c.rank_all
       /\ ~IsNone(a.rank_active) /\ IsNone(b.rank_active)
       /\ ~IsNone(c.rank_active) /\ Val(c.rank_active) # c.rank_all

\* C3: a run_scoring that completes on the snapshot the previous completed run
\* saw leaves parity_scores and sow_scores exactly as that run left them.
C3_Idempotent ==
  [][(/\ Completed
      /\ last_run'.outcome = "completed"
      /\ UNCHANGED dbVars)
     => UNCHANGED scoreVars]_vars

\* A second run has completed on non-empty score tables and left them as the
\* first did.
C3_Witness ==
  /\ Completed
  /\ last_run.pre_parity # {}
  /\ last_run.pre_sow # {}
  /\ parity_scores = last_run.pre_parity
  /\ sow_scores = last_run.pre_sow
  /\ \E r \in parity_scores : r.z_live_born # 0

\* C4: after a run_scoring that failed, the committed parity_scores and
\* sow_scores are either what they were before the run or the complete result
\* of the run.
C4_AllOrNothing ==
  last_run.outcome = "failed" =>
    \/ /\ parity_scores = last_run.pre_parity
       /\ sow_scores = last_run.pre_sow
    \/ /\ parity_scores = ScoredParityRows(farrowing_records, sows)
       /\ sow_scores = ScoredSowRows(farrowing_records, sows, piglets)

\* C6: after run_scoring completes, parity_scores has exactly one row per
\* farrowing record and sow_scores exactly one row per sow with a farrowing
\* record; a sow without a farrowing record has no row in either table.
C6_OneRowPerRecord ==
  Completed =>
    /\ {<<r.individual_id, r.parity>> : r \in parity_scores}
         = {<<f.individual_id, f.parity>> : f \in farrowing_records}
    /\ Cardinality(parity_scores) = Cardinality(farrowing_records)
    /\ {r.individual_id : r \in sow_scores}
         = {f.individual_id : f \in farrowing_records}
    /\ Cardinality(sow_scores)
         = Cardinality({f.individual_id : f \in farrowing_records})

\* A completed run that scored some sow while a sow that is dead and has
\* piglets, and a litter without a weaned piglet, are on file.
C6_Witness ==
  /\ Completed
  /\ sow_scores # {}
  /\ \E x \in sows :
       /\ RecordsOf(x.individual_id) = {}
       /\ x.status = "dead"
       /\ \E i \in 1..Len(piglets) : piglets[i].dam_id = x.individual_id
  /\ \E f \in farrowing_records : f.weaned = Some(0)

\* The cohort of parity k as run_scoring reads it from farrowing_records.
CohortOf(k) == Cohort(ParityData(farrowing_records), k)
ZColumns ==
  {"z_own_weaned", "z_live_born", "z_total_born", "z_stillborn", "z_own_rate"}
StatColumns == {"ow", "lb", "tb", "sb", "orr"}

\* C7: for a parity cohort with fewer than 2 records run_scoring computes a
\* standard deviation of 0 for each of the five quantities and stores
\* z_own_weaned, z_live_born, z_total_born, z_stillborn and z_own_rate as 0 in
\* every row of the cohort.
C7_SmallCohortZero ==
  Completed =>
    \A k \in ScoredParities :
      Cardinality(RecordsAt(k)) < 2 =>
        /\ \A c \in StatColumns : CohortStats(CohortOf(k))[c][2] = 0
        /\ \A r \in CohortRows(k) : \A z \in ZColumns : r[z] = 0

\* A completed run with a cohort of one record that has every quantity, beside
\* a cohort with a z-score that is not 0.
C7_Witness ==
  /\ Completed
  /\ \E k \in ScoredParities :
       /\ Cardinality(RecordsAt(k)) = 1
       /\ \A f \in RecordsAt(k) :
            ~IsNone(f.born_alive) /\ ~IsNone(f.stillborn) /\ Val(f.weaned) > 0
  /\ \E r \in parity_scores : r.z_live_born # 0

\* The z-score of column v of row pr in its cohort, before shrinkage.
RawZ(pr, st, invert, v) == ZScore(v, st[1], st[2], invert)

\* The most parity records of one sow the monotonicity of shrink is checked to.
MaxShrinkN == 12

\* C8: every z-score of a row is the unshrunk z-score times n/(n+3) with n the
\* number of farrowing records of the row's sow over all parities; n/(n+3)
\* is strictly increasing in n >= 1 and strictly between 0 and 1.
C8_Shrinkage ==
  /\ Completed =>
       \A r \in parity_scores :
         LET n == Cardinality(RecordsOf(r.individual_id))
             group == CohortOf(r.parity)
             st == CohortStats(group)
             pr == CHOOSE p \in Range(group) : p.individual_id = r.individual_id
             Shrunk(z) == RDiv(z * n, n + 3)
         IN  /\ r.z_own_weaned = Shrunk(RawZ(pr, st.ow, FALSE, pr.own_w))
             /\ r.z_live_born = Shrunk(RawZ(pr, st.lb, FALSE, Fix(pr.born_alive)))
             /\ r.z_total_born = Shrunk(RawZ(pr, st.tb, FALSE, Fix(pr.total_born)))
             /\ r.z_stillborn = Shrunk(RawZ(pr, st.sb, TRUE, Fix(pr.stillborn)))
             /\ r.z_own_rate = Shrunk(RawZ(pr, st.orr, FALSE, pr.own_rate))
  /\ \A n \in 1..MaxShrinkN :
       LET q == Shrink(n)
           q1 == Shrink(n + 1)
       IN  /\ q[1] * (n + 3) = n * q[2]
           /\ 0 < q[1] /\ q[1] < q[2]
           /\ q[1] * q1[2] < q1[1] * q[2]

\* A completed run with a row whose z_live_born is not 0 and whose sow has a
\* number of records other than the size of the row's cohort.
C8_Witness ==
  /\ Completed
  /\ \E r \in parity_scores :
       /\ r.z_live_born # 0
       /\ Cardinality(RecordsOf(r.individual_id))
            # Cardinality(RecordsAt(r.parity))

\* The calls that need a model.
ModelCalls == {"predict_all", "get_global_shap", "get_individual_shap"}

\* C5: predict_all, get_global_shap and get_individual_shap called on an
\* engine without a model raise the "not trained" error and leave
\* ml_predictions as it was: no row deleted, no row inserted.
C5_UntrainedRaises ==
  (ml_call.op \in ModelCalls /\ IsNone(ml_call.pre_model)) =>
    /\ ml_call.outcome = "not_trained"
    /\ ml_predictions = ml_call.pre_predictions

\* predict_all has just been refused by an engine without a model while
\* ml_predictions holds the rows an earlier engine wrote.
C5_Witness ==
  /\ ml_call.op = "predict_all"
  /\ IsNone(ml_call.pre_model)
  /\ ml_call.outcome = "not_trained"
  /\ ml_call.pre_predictions # {}
  /\ ml_predictions # {}

\* The criteria of row i of the frame given to _build_label, and how many of
\* them are satisfied.
CriteriaOf(i) == Criteria(label_in, Range(RatioCols), i)
Satisfied(i) == Cardinality({c \in Range(CritCols) : CriteriaOf(i)[c] = 1})
Labelled == ~IsNone(label_out)
LabelOf(i) == Val(label_out)[i].is_excellent

\* C9: for every row the number of satisfied criteria _build_label computes
\* is an integer from 0 to 7, and is_excellent is 1 exactly when that number
\* is at least 4 and 0 otherwise.
C9_LabelThreshold ==
  Labelled =>
    /\ Len(Val(label_out)) = Len(label_in)
    /\ \A i \in 1..Len(label_in) :
         /\ CritSum(CriteriaOf(i)) = Satisfied(i)
         /\ Satisfied(i) \in 0..7
         /\ LabelOf(i) \in {0, 1}
         /\ LabelOf(i) = 1 <=> Satisfied(i) >= 4

\* A labelled frame with a row at 4 criteria, a row at 3 and a row at 0 or 7.
C9_Witness ==
  /\ Labelled
  /\ \E i, j, k \in 1..Len(label_in) :
       /\ Satisfied(i) = 4 /\ LabelOf(i) = 1
       /\ Satisfied(j) = 3 /\ LabelOf(j) = 0
       /\ Satisfied(k) \in {0, 7}

\* The criteria with the outcome of criterion c flipped, and the label they
\* get.
Flip(crit, c) == [crit EXCEPT ![c] = 1 - @]
FlippedLabel(i, c) == IsExcellent(CritSum(Flip(CriteriaOf(i), c)))

\* C10 as stated: flipping one criterion of a row changes is_excellent only
\* when the row's criteria sum is 4 or 5.
C10_PivotAt4Or5 ==
  Labelled =>
    \A i \in 1..Len(label_in) : \A c \in Range(CritCols) :
      FlippedLabel(i, c) # LabelOf(i) => Satisfied(i) \in {4, 5}

\* C10, amended: flipping one criterion of a row changes is_excellent only
\* when the row's criteria sum is 3 or 4: at 3 every flip of an unsatisfied
\* criterion changes the label, at 4 every flip of a satisfied one, and at
\* every other sum, 5 included, no flip changes it.
C10_PivotAt3Or4 ==
  Labelled =>
    \A i \in 1..Len(label_in) : \A c \in Range(CritCols) :
      FlippedLabel(i, c) # LabelOf(i)
        <=> \/ Satisfied(i) = 3 /\ CriteriaOf(i)[c] = 0
            \/ Satisfied(i) = 4 /\ CriteriaOf(i)[c] = 1

\* A labelled frame with a row at 3 criteria, a row at 4 and a row at 5.
C10_Witness ==
  /\ Labelled
  /\ \E i, j, k \in 1..Len(label_in) :
       /\ Satisfied(i) = 3 /\ Satisfied(j) = 4 /\ Satisfied(k) = 5
       /\ \E c \in Range(CritCols) : FlippedLabel(i, c) # LabelOf(i)

\* The folds of the split, the rows and the sows in a set of rows.
FoldsDone == ~IsNone(folds)
FoldRows == 1..Len(fold_groups)
SowsIn(rows) == {fold_groups[i] : i \in rows}

\* C11: in the 5-fold split keyed by individual_id every row is in the
\* validation part of exactly one fold, no sow has rows in the validation
\* parts of two folds, and within a fold no sow has rows in both the training
\* part and the validation part.
C11_SowInOneFold ==
  FoldsDone =>
    LET F == Val(folds)
    IN  /\ DOMAIN F = 1..5
        /\ \A i \in FoldRows :
             Cardinality({f \in DOMAIN F : i \in F[f].val_idx}) = 1
        /\ \A f \in DOMAIN F : F[f].train_idx = FoldRows \ F[f].val_idx
        /\ \A f, h \in DOMAIN F :
             f # h => SowsIn(F[f].val_idx) \cap SowsIn(F[h].val_idx) = {}
        /\ \A f \in DOMAIN F :
             SowsIn(F[f].train_idx) \cap SowsIn(F[f].val_idx) = {}

\* A split of six sows, one of them with two rows at positions that a split
\* by row position would part, and a fold that validates on two sows.
C11_Witness ==
  /\ FoldsDone
  /\ Cardinality(Range(fold_groups)) = 6
  /\ \E i \in FoldRows : i + 1 \in FoldRows /\ fold_groups[i] = fold_groups[i + 1]
  /\ \E f \in DOMAIN Val(folds) :
       Cardinality(SowsIn(Val(folds)[f].val_idx)) = 2

\* predict_all has just completed.
Predicted == ml_call.op = "predict_all" /\ ml_call.outcome = "ok"
KeysOf(rows) == {<<r.individual_id, r.parity>> : r \in rows}

\* C12: after a successful predict_all, ml_predictions holds exactly one row
\* per (individual_id, parity) row of the feature matrix used, every row with
\* the engine's model_version and one predicted_at; no row of an earlier
\* prediction run remains.
C12_PredictionsReplaced ==
  Predicted =>
    LET df == Val(feature_matrix)
    IN  /\ KeysOf(ml_predictions) = KeysOf(Range(df))
        /\ Cardinality(ml_predictions) = Len(df)
        /\ \A r \in ml_predictions :
             /\ r.model_version = version
             /\ r.pred_excellent_prob.booster = Val(model)
        /\ \A a, b \in ml_predictions : a.predicted_at = b.predicted_at

\* predict_all has completed over the rows an engine with another version
\* wrote at another time.
C12_Witness ==
  /\ Predicted
  /\ ml_predictions # {}
  /\ \E old \in ml_call.pre_predictions :
       /\ old.model_version # version
       /\ \A r \in ml_predictions : r.predicted_at # old.predicted_at

\* A call that reads the feature matrix has just returned without the "not
\* trained" error.
FeatureCalls == {"train"} \cup ModelCalls
ReadFeatures ==
  /\ ml_call' # ml_call
  /\ ml_call'.op \in FeatureCalls
  /\ ml_call'.outcome # "not_trained"

\* C13: every train, predict_all, get_global_shap and get_individual_shap
\* call works on the feature matrix built from the tables as they are at the
\* time of the call, so a change of the farrowing, piglet or score tables
\* after train shows in the next predict_all.
C13_RebuiltOnEveryCall ==
  [][ReadFeatures =>
       feature_matrix' = Some(BuildFeatureMatrix(farrowing_records, piglets,
                                                 sows, sow_scores))]_vars

\* C14: with no farrowing record in the database, train and predict_all of
\* an engine that is asked to work raise no error: they end with an empty
\* result.
C14_EmptyTablesNoError ==
  [][(/\ ml_call' # ml_call
      /\ farrowing_records = {}
      /\ ml_call'.op \in {"train", "predict_all"}
      /\ ml_call'.outcome # "not_trained")
     => ml_call'.outcome = "ok"]_vars

\* build_feature_matrix has just read sow_scores: train builds the frame on
\* every call, the other calls when the engine holds none; a frame without
\* farrowing records is returned before the dam columns are read.
BuildsFeatures ==
  /\ farrowing_records # {}
  /\ \/ ml_call' # ml_call /\ ml_call'.op = "train"
     \/ IsNone(feature_matrix) /\ ~IsNone(feature_matrix')

\* C15: while an ETL and scoring run or a train and predict run is in
\* progress, no other run that writes the score or prediction tables is in
\* progress.
C15_ExclusiveWriters == ~(etl_pc # "idle" /\ train_pc # "idle")

\* C16: whenever build_feature_matrix reads sow_scores, the table holds the
\* complete result of a finished run_scoring over the farrowing records as
\* they are, never an emptied or partly written one.
C16_ScoresCompleteWhenRead ==
  [][BuildsFeatures =>
       sow_scores = ScoredSowRows(farrowing_records, sows, piglets)]_vars

\* The farrowing record a parity_scores row was computed from, and what makes
\* cohort k one where only born_alive tells the sows apart: every sow has the
\* same number of records and the other terms are the same in every record.
RecordOf(r) ==
  CHOOSE f \in farrowing_records :
    f.individual_id = r.individual_id /\ f.parity = r.parity
OnlyLiveBornDiffers(k) ==
  /\ \A f, g \in RecordsAt(k) :
       /\ Cardinality(RecordsOf(f.individual_id))
            = Cardinality(RecordsOf(g.individual_id))
       /\ f.total_born = g.total_born
       /\ f.stillborn = g.stillborn
       /\ f.weaned = g.weaned
       /\ f.foster = g.foster
  /\ \A f \in RecordsAt(k) : ~IsNone(f.born_alive)

\* C17: in a cohort where every sow has the same number of records and every
\* term but born_alive is at the cohort mean, a row with more born_alive has
\* the higher z_live_born and the smaller rank_all.
C17_LiveBornOrdersCohort ==
  Completed =>
    \A k \in ScoredParities :
      OnlyLiveBornDiffers(k) =>
        \A a, b \in CohortRows(k) :
          Val(RecordOf(a).born_alive) > Val(RecordOf(b).born_alive) =>
            /\ a.z_live_born > b.z_live_born
            /\ a.rank_all < b.rank_all

\* Three sows with 10, 12 and 14 born alive at parity 1 and nothing else to
\* tell them apart have been scored: the sow with 14, not the first on file,
\* has rank_all 1.
C17_Witness ==
  /\ Completed
  /\ OnlyLiveBornDiffers(1)
  /\ {Val(RecordOf(r).born_alive) : r \in CohortRows(1)} = {10, 12, 14}
  /\ Cardinality(CohortRows(1)) = 3
  /\ \E r \in CohortRows(1) :
       /\ Val(RecordOf(r).born_alive) = 14
       /\ r.individual_id # "TB1"
       /\ r.rank_all = 1
       /\ \A o \in CohortRows(1) : o.z_live_born <= r.z_live_born

\* The parity_scores rows of one sow.
ScoresOf(id) == {r \in parity_scores : r.individual_id = id}

\* C18: a sow with exactly one farrowing record, at whatever parity, has
\* stability 0, sustain 0 and, as peak, the parity_score of that record.
C18_SingleRecordAxes ==
  Completed =>
    \A s \in sow_scores :
      Cardinality(RecordsOf(s.individual_id)) = 1 =>
        /\ s.stability = 0
        /\ s.sustain = 0
        /\ \A r \in ScoresOf(s.individual_id) : s.peak = r.parity_score

\* A sow whose only record is at parity 1 has a peak other than 0, next to a
\* sow with several records whose sustain is not 0.
C18_Witness ==
  /\ Completed
  /\ \E s \in sow_scores :
       /\ Cardinality(RecordsOf(s.individual_id)) = 1
       /\ Cardinality(ScoresOf(s.individual_id)) = 1
       /\ \A f \in RecordsOf(s.individual_id) : f.parity = 1
       /\ s.peak # 0
  /\ \E t \in sow_scores :
       /\ Cardinality(RecordsOf(t.individual_id)) > 1
       /\ t.sustain # 0

\* Dam has piglets on file and none of them of rank W.
NoWRankPiglet(dam) ==
  \A i \in 1..Len(piglets) : piglets[i].dam_id = dam => piglets[i].rank # "W"
FeatureRows == IF IsNone(feature_matrix) THEN {} ELSE Range(Val(feature_matrix))
DaughtersOf(dam) ==
  {x.individual_id : x \in {y \in sows : y.dam_id = dam}}

\* z(PS_rate) of a dam, 0 when she has no rate.
ZPsRate(dam) ==
  LET rows == PigletRows(piglets)
      st == OffspringStats(rows)
  IN  IF dam \in Range(PsRateDams(rows))
      THEN ZScore(Some(PsRate(rows, dam)), st.pr[1], st.pr[2], FALSE)
      ELSE 0

\* C19: for a dam without W-rank piglets, dam_w_promotion_rate is NaN in every
\* feature row of her daughters, and her own offspring_quality is
\* 0.4 z(PS_rate): the W-rate term contributes 0.
C19_NoWRankDam ==
  \A dam \in {x.individual_id : x \in sows} :
    NoWRankPiglet(dam) =>
      /\ \A row \in FeatureRows :
           row.individual_id \in DaughtersOf(dam) =>
             IsNone(row.dam_w_promotion_rate)
      /\ Completed =>
           \A s \in sow_scores :
             s.individual_id = dam =>
               s.offspring_quality = RDiv(W_PS_RATE * ZPsRate(dam), 100)

\* A dam with piglets but none of rank W has been scored, with a PS rate off
\* the mean and W rates that differ between the other dams, and the frame has
\* a row of her daughter, whose sister feature rows of other dams have a rate.
C19_Witness ==
  /\ Completed
  /\ \E dam \in {x.individual_id : x \in sows} :
       /\ NoWRankPiglet(dam)
       /\ \E i \in 1..Len(piglets) : piglets[i].dam_id = dam
       /\ ZPsRate(dam) # 0
       /\ OffspringStats(PigletRows(piglets)).wr[2] # 0
       /\ \E s \in sow_scores :
            s.individual_id = dam /\ s.offspring_quality # 0
       /\ \E row \in FeatureRows : row.individual_id \in DaughtersOf(dam)
  /\ \E row \in FeatureRows : ~IsNone(row.dam_w_promotion_rate)

\* load_model has just returned True.
Loaded == ml_call.op = "load_model" /\ ml_call.outcome = "ok"

\* C21: the version string assigned when a model was trained is saved with it:
\* after load_model the engine's version is the one of the training that
\* wrote the file, and every prediction row carries as model_version the
\* version under which its booster was trained.
C21_VersionSurvivesReload ==
  /\ Loaded => version = Val(model_file)
  /\ \A r \in ml_predictions : r.model_version = r.pred_excellent_prob.booster

\* The start-up run from the current state, and the run after it with ZIP_DIR
\* left as it is.
FirstRun == ExtractAllResult(zip_dir, farm_files, farm_links, zip_state)
LaterRun == ExtractAllResult(zip_dir, FirstRun.files, farm_links, FirstRun.state)

\* The kinds of the lines a run logged about that zip as a whole.
LinesAbout(log, zip_name) ==
  {log[i].kind : i \in {j \in 1..Len(log) : log[j].zip = zip_name}}
    \ {"unsafe", "error"}
IsRecorded(zips, zip) ==
  \E p \in zips : p.name = zip.name /\ p.mtime = zip.mtime /\ p.size = zip.size
\* The members of the zip that the loop writes to disk when none raises.
WrittenMembers(zip, links) ==
  {i \in 1..Len(zip.members) :
     LET name == zip.members[i].filename
     IN /\ name = <<>> \/ name[Len(name)] # "/"
        /\ IsSafeExtractPath(name, FARM_DIR, links)
        /\ ~StartsWith(FARM_DIR, OnDisk(name, links))}

ExtractedZips ==
  {zip \in zip_dir :
     "extracted, updated state" \in LinesAbout(zip_log, zip.name)}

\* C27: the start-up run creates no file outside FARM_DIR, and of a zip it
\* extracted, every member with a safe name that is not a directory entry is
\* written below FARM_DIR although other members were skipped as unsafe.
C27_NeverWritesOutsideFarm ==
  /\ \A path \in zip_writes : StartsWith(path, FARM_DIR)
  /\ \A f \in farm_files : StartsWith(f.path, FARM_DIR)
  /\ \A zip \in ExtractedZips :
       \A i \in WrittenMembers(zip, farm_links) :
         OnDisk(zip.members[i].filename, farm_links) \in zip_writes

\* The parity_scores rows of one sow at parities 2 and 3.
PeakRows(id) == {r \in ScoresOf(id) : r.parity \in {2, 3}}
\* The mean parity_score of a set of rows.
MeanScore(rows) ==
  LET ordered == OrderRows(rows)
  IN Mean([i \in 1..Len(ordered) |-> ordered[i].parity_score])

\* C23: the peak of a sow is the mean of her parity_scores at parities 2 and
\* 3 when she has a record at either of them (the single one when she has
\* only one of the two), and the mean of all her parity_scores otherwise.
C23_PeakOfParities2And3 ==
  Completed =>
    \A s \in sow_scores :
      s.peak = IF PeakRows(s.individual_id) # {}
               THEN MeanScore(PeakRows(s.individual_id))
               ELSE MeanScore(ScoresOf(s.individual_id))

\* One sow has records at parities 1, 2 and 3 and a peak that is not the mean
\* of her three scores, another has no record at parity 2 or 3.
C23_Witness ==
  /\ Completed
  /\ \E s \in sow_scores :
       /\ Cardinality(PeakRows(s.individual_id)) = 2
       /\ Cardinality(ScoresOf(s.individual_id)) = 3
       /\ s.peak # MeanScore(ScoresOf(s.individual_id))
  /\ \E s \in sow_scores :
       /\ PeakRows(s.individual_id) = {}
       /\ ScoresOf(s.individual_id) # {}

\* The parity_scores of one sow in ascending order of parity.
ScoresByParity(id) ==
  LET ordered == OrderRows(ScoresOf(id))
  IN [i \in 1..Len(ordered) |-> ordered[i].parity_score]
\* The mean of the last n of the scores less the mean of the first m.
LastLessFirst(scores, n, m) ==
  Mean(SubSeq(scores, Len(scores) - n + 1, Len(scores)))
    - Mean(SubSeq(scores, 1, m))

\* C24: with the k >= 2 scores of a sow in ascending order of parity, her
\* sustain is the mean of the last k - floor(k/2) scores minus the mean of the
\* first floor(k/2); with fewer than 2 scores it is 0.
C24_SustainLateLessEarly ==
  Completed =>
    \A s \in sow_scores :
      LET scores == ScoresByParity(s.individual_id)
          k == Len(scores)
      IN s.sustain = IF k >= 2
                     THEN LastLessFirst(scores, k - (k \div 2), k \div 2)
                     ELSE 0

\* A sow with three scores whose sustain is neither 0 nor what it would be
\* with the middle score in the first half, next to a sow with four scores
\* and a sustain other than 0.
C24_Witness ==
  /\ Completed
  /\ \E s \in sow_scores :
       LET scores == ScoresByParity(s.individual_id)
       IN /\ Len(scores) = 3
          /\ s.sustain # 0
          /\ s.sustain # LastLessFirst(scores, 1, 2)
  /\ \E s \in sow_scores :
       /\ Len(ScoresByParity(s.individual_id)) >= 4
       /\ s.sustain # 0

RECURSIVE SumStillborn(_)
\* The stillborn piglets of a set of farrowing records.
SumStillborn(records) ==
  IF records = {} THEN 0
  ELSE LET f == CHOOSE x \in records : TRUE
       IN Val(f.stillborn) + SumStillborn(records \ {f})
\* The records of cohort k that have a stillborn value.
WithStillborn(k) == {f \in RecordsAt(k) : ~IsNone(f.stillborn)}
\* Fewer stillborn in f than the cohort has on average.
BelowMeanStillborn(f, k) ==
  /\ ~IsNone(f.stillborn)
  /\ Val(f.stillborn) * Cardinality(WithStillborn(k))
       < SumStillborn(WithStillborn(k))
\* Two records of sows with the same number of records that agree in every
\* scored term but stillborn.
OnlyStillbornDiffers(f, g) ==
  /\ Cardinality(RecordsOf(f.individual_id))
       = Cardinality(RecordsOf(g.individual_id))
  /\ f.total_born = g.total_born
  /\ f.born_alive = g.born_alive
  /\ f.weaned = g.weaned
  /\ f.foster = g.foster
  /\ ~IsNone(f.stillborn) /\ ~IsNone(g.stillborn)

\* C25: in a cohort whose stillborn values are not all equal, a row with fewer
\* stillborn than the cohort mean has a positive z_stillborn, and of two sows
\* with the same number of records and every other term equal the one with
\* fewer stillborn has the higher parity_score and the smaller rank_all.
C25_FewerStillbornRanksHigher ==
  Completed =>
    \A k \in ScoredParities :
      Cardinality({f.stillborn : f \in WithStillborn(k)}) > 1 =>
        /\ \A r \in CohortRows(k) :
             BelowMeanStillborn(RecordOf(r), k) => r.z_stillborn > 0
        /\ \A a, b \in CohortRows(k) :
             /\ OnlyStillbornDiffers(RecordOf(a), RecordOf(b))
             /\ Val(RecordOf(a).stillborn) < Val(RecordOf(b).stillborn)
             => /\ a.parity_score > b.parity_score
                /\ a.rank_all < b.rank_all

\* Two sows with one record each, at the same parity and alike but for the
\* stillborn, have been scored, the one with more stillborn first on file.
C25_Witness ==
  /\ Completed
  /\ \E a, b \in parity_scores :
       /\ a.parity = b.parity
       /\ OnlyStillbornDiffers(RecordOf(a), RecordOf(b))
       /\ Val(RecordOf(a).stillborn) < Val(RecordOf(b).stillborn)
       /\ IdIdx(b.individual_id) < IdIdx(a.individual_id)
       /\ BelowMeanStillborn(RecordOf(a), a.parity)
       /\ a.rank_all < b.rank_all

\* Rows with the same value in col are ranked in ascending individual_id.
TiesRankedById(rows, col) ==
  \A a, b \in rows :
    /\ a[col] = b[col]
    /\ IdIdx(a.individual_id) < IdIdx(b.individual_id)
    => a.rank_all < b.rank_all

\* C28: rows with equal parity_score inside one parity cohort, and sows with
\* equal total_score in the sow ranking, are ranked in ascending
\* individual_id order.
C28_TiesRankedById ==
  Completed =>
    /\ \A k \in ScoredParities : TiesRankedById(CohortRows(k), "parity_score")
    /\ TiesRankedById(sow_scores, "total_score")

\* The Tier-2 columns of a row of the frame.
Tier2Cols ==
  {"avg_born_alive_prev", "avg_weaned_prev", "avg_stillborn_prev",
   "max_born_alive_prev", "prev_parity_count", "trend_born_alive"}
Tier2Of(row) == [c \in Tier2Cols |-> row[c]]
\* The records of the sow of row with a parity below the row's.
EarlierRecords(fr, row) ==
  {f \in fr : f.individual_id = row.individual_id /\ f.parity < row.parity}
\* The Tier-2 columns the frame built from the file fr has for the sow and
\* parity of row.
Tier2In(fr, row) ==
  LET rows == OrderRows(fr)
  IN {Tier2Row(rows, i) :
        i \in {j \in 1..Len(rows) :
                 /\ rows[j].individual_id = row.individual_id
                 /\ rows[j].parity = row.parity}}

\* C26: the Tier-2 columns of the row of sow s at parity k are the same in the
\* frame of every file that holds the same records of s below parity k,
\* whatever it holds for s at parity k or later and for other sows; on her
\* first record the averages, the maximum and the trend are missing and
\* prev_parity_count is 0, and the trend is missing with fewer than 2 earlier
\* records.
C26_PriorParitiesOnly ==
  \A row \in FeatureRows :
    /\ \A other \in PriorInputs :
         EarlierRecords(other, row) = EarlierRecords(farrowing_records, row)
           => \A cols \in Tier2In(other, row) : cols = Tier2Of(row)
    /\ row.prev_parity_count
         = Cardinality(EarlierRecords(farrowing_records, row))
    /\ row.prev_parity_count = 0
         => /\ IsNone(row.avg_born_alive_prev)
            /\ IsNone(row.avg_weaned_prev)
            /\ IsNone(row.avg_stillborn_prev)
            /\ IsNone(row.max_born_alive_prev)
    /\ row.prev_parity_count < 2 => IsNone(row.trend_born_alive)

\* The frame has a row with two earlier records of its sow, a trend other
\* than 0 and an average that is not the row's own born_alive, and the sow has
\* a later record and a herd mate.
C26_Witness ==
  \E row \in FeatureRows :
    /\ row.prev_parity_count = 2
    /\ ~IsNone(row.trend_born_alive) /\ Val(row.trend_born_alive) # 0
    /\ ~IsNone(row.born_alive)
    /\ row.avg_born_alive_prev # Some(Val(row.born_alive) * SCALE)
    /\ \E f \in farrowing_records :
         f.individual_id = row.individual_id /\ f.parity > row.parity
    /\ \E f \in farrowing_records : f.individual_id # row.individual_id

\* A _TrainWorker is running, or has ended with one signal to be delivered.
WorkerRunning == train_pc \in {"train", "predict_all", "get_global_shap"}
SignalPending == train_pc \in {"finished", "error"}

\* C29: a press of the train button disables it and starts one _TrainWorker;
\* the button is disabled exactly while a worker runs or its one signal,
\* finished or error, waits for its slot, so no second worker is started
\* meanwhile, and once the worker has ended the button is enabled again.
C29_ButtonReturnsAfterWorker ==
  /\ [](train_btn <=> ~(WorkerRunning \/ SignalPending))
  /\ [][(train_btn /\ ~train_btn') => (~WorkerRunning /\ train_pc' = "train")]_vars
  /\ [][(WorkerRunning /\ ~WorkerRunning') => (SignalPending' /\ ~train_btn')]_vars
  /\ (SignalPending ~> train_btn)

\* A worker has run to its finished signal, the slot has been called and the
\* button is enabled again.
C29_Witness ==
  /\ app = "on"
  /\ train_btn
  /\ train_pc = "idle"
  /\ ml_call.op = "get_global_shap" /\ ml_call.outcome = "ok"
  /\ ml_predictions # {}

\* W_rate of the dam as run_scoring computes it from the piglet table: <<>>
\* for a dam without W-rank piglets.
EngineWRate(dam) ==
  LET rows == PigletRows(piglets)
  IN IF DamWTotal(rows, dam) > 0 THEN Some(WRate(rows, dam)) ELSE None

\* C30: in every feature row of a daughter, dam_w_promotion_rate is her dam's
\* W_rate as the scoring engine computes it from the same piglet table, and so
\* lies between 0 and 1 when it is defined.
C30_DamWRateIsEngineWRate ==
  \A row \in FeatureRows :
    /\ \A dam \in Range(DamOf(sows, row.individual_id)) :
         feature_matrix = Some(BuildFeatureMatrix(farrowing_records, piglets,
                                                  sows, sow_scores))
           => row.dam_w_promotion_rate = EngineWRate(dam)
    /\ ~IsNone(row.dam_w_promotion_rate)
         => Val(row.dam_w_promotion_rate) \in 0..SCALE


====
